---- MODULE Spec2Model ----
(***************************************************************************)
(* A model of pi-eink-dashboard: the tri-colour dither engine, the dual    *)
(* plane Composer, the frame buffer packer (EPD.getbuffer) and the panel   *)
(* protocol driver (EPD / epdconfig / Display).                            *)
(*                                                                         *)
(* Geometry.  The panel is EPD_WIDTH x EPD_HEIGHT = 176 x 264 in the       *)
(* source (176 = 8 * 22 bytes per row).  The model keeps the structure     *)
(* "a row is a whole number of bytes" and scales the two factors:          *)
(* EPD_WIDTH = 8 * PanelBytesPerRow and EPD_HEIGHT = PanelRows.  Every     *)
(* size the source derives from them (the 5,808-byte plane buffer, the     *)
(* 264 x 176 landscape canvas) is derived here by the same expression.     *)
(***************************************************************************)
EXTENDS Integers, Sequences, FiniteSets, TLC

VARIABLES
    \* ---- frame buffer packer (EPD.getbuffer called on one image)
    pkImg,      \* the landscape mask to pack
    pkVia,      \* "none" before packing, then the path taken
    pkBuf,      \* the buffer getbuffer returned
    \* ---- panel protocol driver (epdconfig, EPD, Display)
    spiOpen,    \* epdconfig._spi is not None: bus and pins are acquired
    rstPin,     \* level of the reset pin
    dcPin,      \* level of the data/command pin
    display,    \* "none", or "live" once Display() has returned
    op,         \* the Display operation called last, "none" before any
    phase,      \* "idle", or "running" while that operation executes
    todo,       \* hardware calls the running operation has still to make
    trace,      \* hardware calls it has made, in order
    outcome,    \* how it ended: "returned", or the exception kind raised
    logged,     \* the exception kind close() logged, "none" otherwise
    panelInk,   \* the frame the panel refreshed last had ink in it
    \* ---- one call of EPD.wait_until_idle against a busy line
    wtTimeout,  \* timeout_ms
    wtIdleAfter,\* reads of the busy line that return busy before it is idle
    wtResult,   \* what the call did, NoWait before it ran
    \* ---- dither engine (dither.py)
    palette,    \* _PALETTE_LAB, the module-level palette in CIELAB
    dSrc,       \* the RGB image being dithered (after resize and enhance)
    dPhase,     \* "idle", "running" (inside the pass) or "done"
    dPos,       \* pixels the pass has visited
    dOrder,     \* the pixels (x, y) in the order the pass visited them
    dPix,       \* pixels: the accumulated CIELAB value of every pixel
    dRes,       \* result: the palette index of every pixel
    dOut,       \* the (black_layer, red_layer) pair returned last
    dPrev,      \* source and layers of the call before that one
    \* ---- one quantization of an accumulated value (dither.py, argmin)
    nqOld,      \* old: the accumulated CIELAB value of the pixel
    nqNearest,  \* nearest: the palette index chosen, NotYet before
    \* ---- layer composer (composer.py)
    cBlack,     \* Composer._black, the black plane
    cRed,       \* Composer._red, the red plane
    cCall,      \* the drawing call made last and its arguments
    cDraws,     \* drawing calls made on this Composer
    \* ---- main loop (main.py)
    screen_idx, \* index of the current screen
    auto_cycle, \* the refresh timeout also moves to the next screen
    running,    \* cleared by the SIGINT/SIGTERM handler
    mPc,        \* where main() stands: "loop", "render", "poll", "event",
                \* "finally" or "exited"
    mEvent,     \* what the poll iteration run last saw, "none" before any
    mFrom,      \* screen_idx when that iteration began
    mCloses,    \* calls of display.close() made by main()
    mExit,      \* why the loop was left: "none", "signal" or "exception"
    \* ---- photo cache (photos.py)
    meta,       \* PhotoCache._meta["photos"], oldest entry first
    files,      \* the files in CACHE_DIR, as (hash, suffix)
    pending,    \* PhotoCache._pending
    tOp,        \* per thread: the operation it runs, "idle" if none
    tQueue,     \* per thread: the photos it has still to hand to _process_one
    tCall       \* per thread: its call of _process_one, running or last

packVars == <<pkImg, pkVia, pkBuf>>

waitVars == <<wtTimeout, wtIdleAfter, wtResult>>

ditherVars ==
    <<palette, dSrc, dPhase, dPos, dOrder, dPix, dRes, dOut, dPrev>>

composerVars == <<cBlack, cRed, cCall, cDraws>>

quantVars == <<nqOld, nqNearest>>

mainVars == <<screen_idx, auto_cycle, running, mPc, mEvent, mFrom, mCloses,
              mExit>>

driverVars == <<spiOpen, rstPin, dcPin, display, op, phase, todo, trace,
                outcome, logged, panelInk>>

photoVars == <<meta, files, pending, tOp, tQueue, tCall>>

vars ==
    <<packVars, driverVars, waitVars, ditherVars, composerVars, quantVars,
      mainVars, photoVars>>

notPack ==
    <<driverVars, waitVars, ditherVars, composerVars, quantVars, mainVars, photoVars>>

notDriver ==
    <<packVars, waitVars, ditherVars, composerVars, quantVars, mainVars, photoVars>>

notWait ==
    <<packVars, driverVars, ditherVars, composerVars, quantVars, mainVars, photoVars>>

notDither ==
    <<packVars, driverVars, waitVars, composerVars, quantVars, mainVars, photoVars>>

notComposer ==
    <<packVars, driverVars, waitVars, ditherVars, quantVars, mainVars, photoVars>>

notMain ==
    <<packVars, driverVars, waitVars, ditherVars, composerVars, quantVars, photoVars>>

notPhoto ==
    <<packVars, driverVars, waitVars, ditherVars, composerVars, quantVars,
      mainVars>>

notQuant ==
    <<packVars, driverVars, waitVars, ditherVars, composerVars, mainVars, photoVars>>

----------------------------------------------------------------------------
(* Bounds of the model *)

\* bytes per physical panel row (22 in the source: 176 / 8)
PanelBytesPerRow == 1
\* physical panel rows (264 in the source)
PanelRows == 5
\* masks handed to the packer differ from blank (or from full) in at most
\* this many pixels
MaxInk == 1
\* the busy line reports busy on at most this many reads before it reports
\* idle, or it never reports idle
MaxBusyReads == 2
\* a wait_until_idle call under test sees at most this many busy reads
\* before the line reports idle, or a line that never reports idle
WaitBusyReads == 12
\* passes of a long loop the model evaluates per level of recursion
EvalChunk == 20
\* reads after which the model stops a wait loop that has lost its timeout
IdleAfterCap == 400

\* drawing calls made on one Composer before it is dropped
MaxDraws == 2

----------------------------------------------------------------------------
(* Panel and canvas geometry *)

\* epd2in7b.py: EPD_WIDTH = 176
EPD_WIDTH == 8 * PanelBytesPerRow
\* epd2in7b.py: EPD_HEIGHT = 264
EPD_HEIGHT == PanelRows
\* display.py / composer.py / dither.py: WIDTH = 264 (landscape canvas)
WIDTH == EPD_HEIGHT
\* display.py / composer.py / dither.py: HEIGHT = 176
HEIGHT == EPD_WIDTH

\* self.width * self.height // 8, the length of one plane buffer
BufSize == (EPD_WIDTH * EPD_HEIGHT) \div 8

----------------------------------------------------------------------------
(* 1-bit images.  A PIL mode "1" image is its size and, per pixel, 0 (ink) *)
(* or 255 (no ink); the model keeps the size and the set of ink pixels.    *)

NoImage == [w |-> 0, h |-> 0, ink |-> {}]

Pixels(w, h) == (0..(w - 1)) \X (0..(h - 1))

\* Image.new("1", (w, h), NO_INK)
NewImage(w, h) == [w |-> w, h |-> h, ink |-> {}]

\* pixels[x, y] of a mode "1" image: 0 where ink, 255 elsewhere
PixelAt(img, x, y) == IF <<x, y>> \in img.ink THEN 0 ELSE 255

\* a slip: the mask turned clockwise (ROTATE_270)
Rotate90Clockwise(img) ==
    [w |-> img.h, h |-> img.w,
     ink |-> {<<img.h - 1 - p[2], p[1]>> : p \in img.ink}]

\* Image.transpose(Image.ROTATE_90): 90 degrees counter-clockwise; the
\* output is h x w and output pixel (x, y) is input pixel (w - 1 - y, x)
Rotate90(img) ==
    [w |-> img.h, h |-> img.w,
     ink |-> {<<p[2], img.w - 1 - p[1]>> : p \in img.ink}]

----------------------------------------------------------------------------
(* Bytes *)

Pow2(n) == IF n = 0 THEN 1 ELSE IF n = 1 THEN 2 ELSE IF n = 2 THEN 4
           ELSE IF n = 3 THEN 8 ELSE IF n = 4 THEN 16 ELSE IF n = 5 THEN 32
           ELSE IF n = 6 THEN 64 ELSE 128

\* a bit-order slip: 0x01 << n (least significant bit first)
Shr80LsbFirst(n) == Pow2(n)

\* 0x80 >> n
Shr80(n) == 128 \div Pow2(n)

\* v & m for a one-bit mask m
AndMask(v, m) == IF (v \div m) % 2 = 1 THEN m ELSE 0

\* v &= ~m for a byte v and a one-bit mask m
ClearMask(v, m) == v - AndMask(v, m)

----------------------------------------------------------------------------
(* EPD.getbuffer *)

\* buf[(x + y * self.width) // 8] &= ~(0x80 >> (x % 8)), on a buffer kept
\* as a sequence (Python index i is element i + 1)
ClearBitAt(buf, idx, bit) ==
    [buf EXCEPT ![idx + 1] = ClearMask(@, Shr80(bit))]

RECURSIVE PortraitRow(_, _, _, _)
\* for x in range(imwidth), in row y of the already-portrait branch
PortraitRow(img, y, x, buf) ==
    IF x = img.w THEN buf
    ELSE LET nbuf == IF PixelAt(img, x, y) # 0
                     THEN ClearBitAt(buf, (x + y * EPD_WIDTH) \div 8, x % 8)
                     ELSE buf
         IN IF Len(nbuf) = 0 THEN nbuf ELSE PortraitRow(img, y, x + 1, nbuf)

RECURSIVE PortraitLoop(_, _, _)
\* for y in range(imheight), already-portrait branch
PortraitLoop(img, y, buf) ==
    IF y = img.h THEN buf
    ELSE LET nbuf == PortraitRow(img, y, 0, buf)
         IN IF Len(nbuf) = 0 THEN nbuf ELSE PortraitLoop(img, y + 1, nbuf)

RECURSIVE LandscapeRow(_, _, _, _)
\* for x in range(imwidth), in row y of the rotating branch
LandscapeRow(img, y, x, buf) ==
    IF x = img.w THEN buf
    ELSE LET newx == y
             newy == EPD_HEIGHT - x - 1
             nbuf == IF PixelAt(img, x, y) # 0
                     THEN ClearBitAt(buf, (newx + newy * EPD_WIDTH) \div 8,
                                     y % 8)
                     ELSE buf
         IN IF Len(nbuf) = 0 THEN nbuf ELSE LandscapeRow(img, y, x + 1, nbuf)

RECURSIVE LandscapeLoop(_, _, _)
\* for y in range(imheight), rotating branch
LandscapeLoop(img, y, buf) ==
    IF y = img.h THEN buf
    ELSE LET nbuf == LandscapeRow(img, y, 0, buf)
         IN IF Len(nbuf) = 0 THEN nbuf ELSE LandscapeLoop(img, y + 1, nbuf)

\* a polarity slip: the buffer allocated as [0x00] * size
getbufferZeroFilled(img) ==
    LET buf == [i \in 1..BufSize |-> 0]
    IN IF img.w = EPD_WIDTH /\ img.h = EPD_HEIGHT THEN PortraitLoop(img, 0, buf)
       ELSE IF img.w = EPD_HEIGHT /\ img.h = EPD_WIDTH
            THEN LandscapeLoop(img, 0, buf)
       ELSE buf

getbuffer(img) ==
    LET buf == [i \in 1..BufSize |-> 255]
    IN IF img.w = EPD_WIDTH /\ img.h = EPD_HEIGHT THEN PortraitLoop(img, 0, buf)
       ELSE IF img.w = EPD_HEIGHT /\ img.h = EPD_WIDTH
            THEN LandscapeLoop(img, 0, buf)
       ELSE buf

----------------------------------------------------------------------------
(* Inputs of the packer: landscape masks close to blank or close to full *)

RECURSIVE SmallSubsets(_, _)
\* the subsets of S with at most n elements, built without SUBSET S
SmallSubsets(S, n) ==
    IF n = 0 THEN {{}}
    ELSE LET less == SmallSubsets(S, n - 1)
         IN less \cup {T \cup {e} : T \in less, e \in S}

LandscapeMasks ==
    LET all == Pixels(WIDTH, HEIGHT)
        few == SmallSubsets(all, MaxInk)
    IN {[w |-> WIDTH, h |-> HEIGHT, ink |-> s] : s \in few}
       \cup {[w |-> WIDTH, h |-> HEIGHT, ink |-> all \ s] : s \in few}

----------------------------------------------------------------------------
(* Panel protocol driver: commands of epd2in7b.py *)

PANEL_SETTING == 0
POWER_SETTING == 1
POWER_OFF == 2
POWER_ON == 4
BOOSTER_SOFT_START == 6
DEEP_SLEEP == 7
DATA_START_TRANSMISSION_1 == 16
DATA_STOP == 17
DISPLAY_REFRESH == 18
DATA_START_TRANSMISSION_2 == 19
PARTIAL_DISPLAY_REFRESH == 22
LUT_FOR_VCOM == 32
LUT_WHITE_TO_WHITE == 33
LUT_BLACK_TO_WHITE == 34
LUT_WHITE_TO_BLACK == 35
LUT_BLACK_TO_BLACK == 36
PLL_CONTROL == 48
VCOM_AND_DATA_INTERVAL_SETTING == 80
TCON_RESOLUTION == 97
VCM_DC_SETTING_REGISTER == 130
\* the vendor power-optimization command, 0xF8
POWER_OPTIMIZATION == 248

\* wait_until_idle(self, timeout_ms=30000)
DEFAULT_TIMEOUT_MS == 30000
\* epdconfig.delay_ms(100) between two reads of the busy line
POLL_INTERVAL_MS == 100

\* epd2in7b.py lines 52-97 (44 bytes)
lut_vcom_dc ==
    <<0, 0, 0, 26, 26, 0, 0, 1, 0, 10, 10,
      0, 0, 8, 0, 14, 1, 14, 1, 16, 0, 10,
      10, 0, 0, 8, 0, 4, 16, 0, 0, 5, 0,
      3, 14, 0, 0, 10, 0, 35, 0, 0, 0, 1>>

\* epd2in7b.py lines 99-142 (42 bytes)
lut_ww ==
    <<144, 26, 26, 0, 0, 1, 64, 10, 10, 0, 0,
      8, 132, 14, 1, 14, 1, 16, 128, 10, 10, 0,
      0, 8, 0, 4, 16, 0, 0, 5, 0, 3, 14,
      0, 0, 10, 0, 35, 0, 0, 0, 1>>

\* epd2in7b.py lines 144-187 (42 bytes)
lut_bw ==
    <<160, 26, 26, 0, 0, 1, 0, 10, 10, 0, 0,
      8, 132, 14, 1, 14, 1, 16, 144, 10, 10, 0,
      0, 8, 176, 4, 16, 0, 0, 5, 176, 3, 14,
      0, 0, 10, 192, 35, 0, 0, 0, 1>>

\* epd2in7b.py lines 189-232 (42 bytes)
lut_bb ==
    <<144, 26, 26, 0, 0, 1, 64, 10, 10, 0, 0,
      8, 132, 14, 1, 14, 1, 16, 128, 10, 10, 0,
      0, 8, 0, 4, 16, 0, 0, 5, 0, 3, 14,
      0, 0, 10, 0, 35, 0, 0, 0, 1>>

\* epd2in7b.py lines 234-277 (42 bytes)
lut_wb ==
    <<144, 26, 26, 0, 0, 1, 32, 10, 10, 0, 0,
      8, 132, 14, 1, 14, 1, 16, 16, 10, 10, 0,
      0, 8, 0, 4, 16, 0, 0, 5, 0, 3, 14,
      0, 0, 10, 0, 35, 0, 0, 0, 1>>

----------------------------------------------------------------------------
(* Hardware calls.  An operation of the driver is the sequence of epdconfig *)
(* calls it makes; a call is [k, v]: k = "init" (module_init), "rst" and    *)
(* "dc" (digital_write of the reset and data/command pin, v the level),     *)
(* "spi" (spi_transfer of the byte v), "delay" (delay_ms(v)), "wait"        *)
(* (wait_until_idle, v the timeout in ms) and "exit" (module_exit).         *)

Call(k, v) == [k |-> k, v |-> v]

\* EPD.reset
reset ==
    <<Call("rst", 1), Call("delay", 200), Call("rst", 0), Call("delay", 2),
      Call("rst", 1), Call("delay", 200)>>

\* EPD.send_command: digital_write(dc_pin, 0); spi_transfer([command])
send_command(command) == <<Call("dc", 0), Call("spi", command)>>

\* a slip: the data byte transferred without setting the line first
send_dataStale(data) == <<Call("spi", data)>>

\* EPD.send_data: digital_write(dc_pin, 1); spi_transfer([data])
send_data(data) == <<Call("dc", 1), Call("spi", data)>>

RECURSIVE send_each(_, _)
\* for b in seq: self.send_data(b), from element i on
send_each(seq, i) ==
    IF i > Len(seq) THEN <<>> ELSE send_data(seq[i]) \o send_each(seq, i + 1)

\* self.wait_until_idle() with the default timeout
wait_call == <<Call("wait", DEFAULT_TIMEOUT_MS)>>

\* a slip: the last table uploaded one byte short
set_lutShort ==
    send_command(LUT_FOR_VCOM) \o send_each(lut_vcom_dc, 1)
    \o send_command(LUT_WHITE_TO_WHITE) \o send_each(lut_ww, 1)
    \o send_command(LUT_BLACK_TO_WHITE) \o send_each(lut_bw, 1)
    \o send_command(LUT_WHITE_TO_BLACK) \o send_each(lut_bb, 1)
    \o send_command(LUT_BLACK_TO_BLACK)
    \o send_each(SubSeq(lut_wb, 1, Len(lut_wb) - 1), 1)

\* EPD.set_lut
set_lut ==
    send_command(LUT_FOR_VCOM) \o send_each(lut_vcom_dc, 1)
    \o send_command(LUT_WHITE_TO_WHITE) \o send_each(lut_ww, 1)
    \o send_command(LUT_BLACK_TO_WHITE) \o send_each(lut_bw, 1)
    \o send_command(LUT_WHITE_TO_BLACK) \o send_each(lut_bb, 1)
    \o send_command(LUT_BLACK_TO_BLACK) \o send_each(lut_wb, 1)

\* a slip: the waveform tables uploaded before the power optimization and
\* the VCOM registers
EPD_initLutsEarly ==
    <<Call("init", 0)>> \o reset
    \o send_command(POWER_ON) \o wait_call
    \o send_command(PANEL_SETTING) \o send_data(175)
    \o send_command(PLL_CONTROL) \o send_data(58)
    \o send_command(POWER_SETTING) \o send_each(<<3, 0, 43, 43, 9>>, 1)
    \o send_command(BOOSTER_SOFT_START) \o send_each(<<7, 7, 23>>, 1)
    \o set_lut
    \o send_command(POWER_OPTIMIZATION) \o send_each(<<96, 165>>, 1)
    \o send_command(POWER_OPTIMIZATION) \o send_each(<<137, 165>>, 1)
    \o send_command(POWER_OPTIMIZATION) \o send_each(<<144, 0>>, 1)
    \o send_command(POWER_OPTIMIZATION) \o send_each(<<147, 42>>, 1)
    \o send_command(POWER_OPTIMIZATION) \o send_each(<<115, 65>>, 1)
    \o send_command(VCM_DC_SETTING_REGISTER) \o send_data(18)
    \o send_command(VCOM_AND_DATA_INTERVAL_SETTING) \o send_data(135)
    \o send_command(PARTIAL_DISPLAY_REFRESH) \o send_data(0)

\* EPD.init: module_init() always returns 0, so init() returns 0 whenever
\* it returns
EPD_init ==
    <<Call("init", 0)>> \o reset
    \o send_command(POWER_ON) \o wait_call
    \o send_command(PANEL_SETTING) \o send_data(175)
    \o send_command(PLL_CONTROL) \o send_data(58)
    \o send_command(POWER_SETTING) \o send_each(<<3, 0, 43, 43, 9>>, 1)
    \o send_command(BOOSTER_SOFT_START) \o send_each(<<7, 7, 23>>, 1)
    \o send_command(POWER_OPTIMIZATION) \o send_each(<<96, 165>>, 1)
    \o send_command(POWER_OPTIMIZATION) \o send_each(<<137, 165>>, 1)
    \o send_command(POWER_OPTIMIZATION) \o send_each(<<144, 0>>, 1)
    \o send_command(POWER_OPTIMIZATION) \o send_each(<<147, 42>>, 1)
    \o send_command(POWER_OPTIMIZATION) \o send_each(<<115, 65>>, 1)
    \o send_command(VCM_DC_SETTING_REGISTER) \o send_data(18)
    \o send_command(VCOM_AND_DATA_INTERVAL_SETTING) \o send_data(135)
    \o set_lut
    \o send_command(PARTIAL_DISPLAY_REFRESH) \o send_data(0)

\* send_command(TCON_RESOLUTION) and EPD_WIDTH >> 8, EPD_WIDTH & 0xFF,
\* EPD_HEIGHT >> 8, EPD_HEIGHT & 0xFF
set_resolution ==
    send_command(TCON_RESOLUTION)
    \o send_data(EPD_WIDTH \div 256) \o send_data(EPD_WIDTH % 256)
    \o send_data(EPD_HEIGHT \div 256) \o send_data(EPD_HEIGHT % 256)

\* one plane of EPD.display: data-start, delay_ms(2),
\* for i in range(width * height // 8): send_data(image[i]), DATA_STOP
send_plane(start, image) ==
    send_command(start) \o <<Call("delay", 2)>>
    \o send_each(SubSeq(image, 1, BufSize), 1)
    \o send_command(DATA_STOP)

\* a framing slip: the red plane sent before the black plane
EPD_displayRedFirst(imageblack, imagered) ==
    set_resolution
    \o send_plane(DATA_START_TRANSMISSION_2, imagered)
    \o send_plane(DATA_START_TRANSMISSION_1, imageblack)
    \o send_command(DISPLAY_REFRESH) \o wait_call

\* EPD.display(imageblack, imagered), both buffers given
EPD_display(imageblack, imagered) ==
    set_resolution
    \o send_plane(DATA_START_TRANSMISSION_1, imageblack)
    \o send_plane(DATA_START_TRANSMISSION_2, imagered)
    \o send_command(DISPLAY_REFRESH) \o wait_call

\* a polarity slip: Clear sending 0xFF, the all-ink byte
EPD_ClearAllInk ==
    set_resolution
    \o send_plane(DATA_START_TRANSMISSION_1, [i \in 1..BufSize |-> 255])
    \o send_plane(DATA_START_TRANSMISSION_2, [i \in 1..BufSize |-> 255])
    \o send_command(DISPLAY_REFRESH) \o wait_call

\* EPD.Clear: buf_size times send_data(0x00) on each plane
EPD_Clear ==
    set_resolution
    \o send_plane(DATA_START_TRANSMISSION_1, [i \in 1..BufSize |-> 0])
    \o send_plane(DATA_START_TRANSMISSION_2, [i \in 1..BufSize |-> 0])
    \o send_command(DISPLAY_REFRESH) \o wait_call

\* a slip: the bus released before the deep-sleep command is sent
EPD_sleepExitEarly ==
    send_command(VCOM_AND_DATA_INTERVAL_SETTING) \o send_data(247)
    \o send_command(POWER_OFF) \o wait_call
    \o <<Call("delay", 2000), Call("exit", 0)>>
    \o send_command(DEEP_SLEEP) \o send_data(165)

\* EPD.sleep
EPD_sleep ==
    send_command(VCOM_AND_DATA_INTERVAL_SETTING) \o send_data(247)
    \o send_command(POWER_OFF) \o wait_call
    \o send_command(DEEP_SLEEP) \o send_data(165)
    \o <<Call("delay", 2000), Call("exit", 0)>>

----------------------------------------------------------------------------
(* EPD.wait_until_idle *)

\* a busy line that never reports idle
Never == -1

NoWait == [reads |-> 0, elapsed |-> 0, timedOut |-> FALSE]

\* epdconfig.digital_read(busy_pin) on the n-th read (n = 1, 2, ...) of a
\* line that is busy for idleAfter reads: 0 = busy, 1 = idle
BusyLine(idleAfter, n) ==
    IF idleAfter = Never \/ n <= idleAfter THEN 0 ELSE 1

\* a slip: the timeout test left out of the loop; the line is then polled
\* until it reports idle (the model stops it at IdleAfterCap reads)
WaitPassNoTimeout(timeout_ms, idleAfter, st) ==
    IF BusyLine(idleAfter, st.reads + 1) = 0
    THEN [reads |-> st.reads + 1, elapsed |-> st.elapsed + POLL_INTERVAL_MS,
          timedOut |-> FALSE, done |-> st.reads >= IdleAfterCap]
    ELSE [reads |-> st.reads + 1, elapsed |-> st.elapsed,
          timedOut |-> FALSE, done |-> TRUE]

\* one pass of the while loop: read the line; if busy, delay_ms(100),
\* elapsed += 100 and break when elapsed >= timeout_ms
WaitPass(timeout_ms, idleAfter, st) ==
    IF BusyLine(idleAfter, st.reads + 1) = 0
    THEN LET e == st.elapsed + POLL_INTERVAL_MS
         IN [reads |-> st.reads + 1, elapsed |-> e,
             timedOut |-> e >= timeout_ms, done |-> e >= timeout_ms]
    ELSE [reads |-> st.reads + 1, elapsed |-> st.elapsed,
          timedOut |-> FALSE, done |-> TRUE]

RECURSIVE WaitPasses(_, _, _, _)
\* at most n passes of the loop from loop state st
WaitPasses(timeout_ms, idleAfter, st, n) ==
    IF st.done \/ n = 0 THEN st
    ELSE LET nst == WaitPass(timeout_ms, idleAfter, st)
         IN IF nst.done THEN nst
            ELSE WaitPasses(timeout_ms, idleAfter, nst, n - 1)

RECURSIVE WaitLoop(_, _, _)
\* the while loop, evaluated EvalChunk passes at a time
WaitLoop(timeout_ms, idleAfter, st) ==
    LET nst == WaitPasses(timeout_ms, idleAfter, st, EvalChunk)
    IN IF nst.done THEN nst ELSE WaitLoop(timeout_ms, idleAfter, nst)

\* EPD.wait_until_idle(timeout_ms): the reads of the busy line it makes,
\* the time it sleeps between them, and whether it gave up
wait_until_idle(timeout_ms, idleAfter) ==
    LET r == WaitLoop(timeout_ms, idleAfter,
                      [reads |-> 0, elapsed |-> 0, timedOut |-> FALSE,
                       done |-> FALSE])
    IN [reads |-> r.reads, elapsed |-> r.elapsed, timedOut |-> r.timedOut]

BusyBehaviours == (0..MaxBusyReads) \cup {Never}

----------------------------------------------------------------------------
(* Display and the execution of an operation, one hardware call at a time *)

\* exceptions the hardware layer raises (spidev: OSError; gpiozero:
\* GPIOZeroError); both are subclasses of Exception
ErrorKinds == {"OSError", "GPIOZeroError"}

\* the calls that touch the hardware and so may raise; delay_ms is
\* time.sleep
MayRaise(c) == c.k \in {"init", "rst", "dc", "spi", "wait", "exit"}

\* masks the callers of Display.show pass in the model
ShowMasks ==
    LET all == Pixels(WIDTH, HEIGHT)
    IN {[w |-> WIDTH, h |-> HEIGHT, ink |-> s] :
           s \in {{}, all, {<<WIDTH - 1, 1>>}}}

InitDriver ==
    /\ spiOpen = FALSE
    /\ rstPin = 0
    /\ dcPin = 0
    /\ display = "none"
    /\ op = "none"
    /\ phase = "idle"
    /\ todo = <<>>
    /\ trace = <<>>
    /\ outcome = "none"
    /\ logged = "none"
    /\ panelInk = FALSE

\* an operation is entered with the calls it is going to make
Enter(name, calls) ==
    /\ op' = name
    /\ phase' = "running"
    /\ todo' = calls
    /\ trace' = <<>>
    /\ outcome' = "none"
    /\ logged' = "none"
    /\ UNCHANGED <<spiOpen, rstPin, dcPin, display, panelInk>>

\* Display.__init__ when /dev/spidev0.0 is missing, or when importing or
\* constructing EPD raises: DisplayNotFoundError, nothing sent
DisplayNotFound ==
    /\ phase = "idle"
    /\ display = "none"
    /\ \E why \in {"no spidev", "EPD() raised"} :
          /\ op' = "Display"
          /\ outcome' = "DisplayNotFoundError"
    /\ trace' = <<>>
    /\ UNCHANGED <<spiOpen, rstPin, dcPin, display, phase, todo, logged,
                   panelInk>>
    /\ UNCHANGED notDriver

\* Display.__init__ with the device present: self._epd.init(), then
\* self._epd.Clear()
DisplayInit ==
    /\ phase = "idle"
    /\ display = "none"
    /\ Enter("Display", EPD_init \o EPD_Clear)
    /\ UNCHANGED notDriver

\* the body of Display.show: rotate both masks, pack them, EPD.display
Display_show ==
    [black_image \in ShowMasks, red_image \in ShowMasks |->
        LET black_buf == getbuffer(Rotate90(black_image))
            red_buf == getbuffer(Rotate90(red_image))
        IN EPD_display(black_buf, red_buf)]

\* Display.show(black_image, red_image)
DisplayShow ==
    /\ phase = "idle"
    /\ display = "live"
    /\ \E black_image \in ShowMasks, red_image \in ShowMasks :
          Enter("show", Display_show[black_image, red_image])
    /\ UNCHANGED notDriver

\* Display.clear()
DisplayClear ==
    /\ phase = "idle"
    /\ display = "live"
    /\ Enter("clear", EPD_Clear)
    /\ UNCHANGED notDriver

\* Display.close(): self._epd.Clear(); self._epd.sleep() inside try
DisplayClose ==
    /\ phase = "idle"
    /\ display = "live"
    /\ Enter("close", EPD_Clear \o EPD_sleep)
    /\ UNCHANGED notDriver

\* the operation returns once its last call has been made
Advance ==
    /\ todo' = Tail(todo)
    /\ IF Len(todo) = 1
       THEN /\ phase' = "idle"
            /\ outcome' = "returned"
            /\ display' = IF op = "Display" THEN "live" ELSE display
       ELSE UNCHANGED <<phase, outcome, display>>
    /\ UNCHANGED <<op, logged>>

\* the panel's frame memory: a data byte that follows a data-start command
\* (0x10, 0x13) with no other command in between is plane data; a non-zero
\* byte of it puts ink on the frame
InkSent(tr) ==
    \E j \in 1..Len(tr) :
        /\ tr[j].k = "spi" /\ tr[j].dc = 1 /\ tr[j].v # 0
        /\ \E i \in 1..(j - 1) :
              /\ tr[i].k = "spi" /\ tr[i].dc = 0
              /\ tr[i].v \in {DATA_START_TRANSMISSION_1,
                              DATA_START_TRANSMISSION_2}
              /\ \A m \in (i + 1)..(j - 1) :
                    ~(tr[m].k = "spi" /\ tr[m].dc = 0)

\* the level of the data/command pin after call c
DcAfter(c) == IF c.k = "dc" THEN c.v ELSE IF c.k = "exit" THEN 0 ELSE dcPin

\* the next hardware call of the running operation succeeds.  Every call
\* but delay_ms goes through _ensure_init, which acquires bus and pins when
\* _spi is None; module_exit releases them.
HardwareCall ==
    /\ phase = "running"
    /\ todo # <<>>
    /\ Head(todo).k # "wait"
    /\ LET c == Head(todo)
       IN /\ spiOpen' = IF c.k = "exit" THEN FALSE
                        ELSE IF c.k = "delay" THEN spiOpen ELSE TRUE
          /\ rstPin' = IF c.k = "rst" THEN c.v
                       ELSE IF c.k = "exit" THEN 0 ELSE rstPin
          /\ dcPin' = DcAfter(c)
          /\ trace' = Append(trace, [k |-> c.k, v |-> c.v, dc |-> DcAfter(c)])
          /\ panelInk' = IF c.k = "spi" /\ dcPin = 0 /\ c.v = DISPLAY_REFRESH
                          THEN InkSent(trace) ELSE panelInk
    /\ Advance
    /\ UNCHANGED notDriver

\* the next call is wait_until_idle: the busy line decides how long it
\* takes; the trace keeps the time slept
BusyWait ==
    /\ phase = "running"
    /\ todo # <<>>
    /\ Head(todo).k = "wait"
    /\ \E idleAfter \in BusyBehaviours :
          LET r == wait_until_idle(Head(todo).v, idleAfter)
          IN trace' = Append(trace, [k |-> "wait", v |-> r.elapsed,
                                     dc |-> dcPin])
    /\ spiOpen' = TRUE
    /\ UNCHANGED <<rstPin, dcPin, panelInk>>
    /\ Advance
    /\ UNCHANGED notDriver

\* a slip: close() without its try/except, the exception reaches the caller
close_exceptReraise(e) == [outcome |-> e, logged |-> "none"]

\* Display.close: except Exception: log.exception(...), then return
close_except(e) == [outcome |-> "returned", logged |-> e]

\* the next hardware call raises e.  close() catches it; __init__, show
\* and clear have no handler around the driver calls and let it through.
HardwareError ==
    /\ phase = "running"
    /\ todo # <<>>
    /\ MayRaise(Head(todo))
    /\ \E e \in ErrorKinds :
          LET h == IF op = "close" THEN close_except(e)
                   ELSE [outcome |-> e, logged |-> "none"]
          IN /\ outcome' = h.outcome
             /\ logged' = h.logged
    /\ phase' = "idle"
    /\ todo' = <<>>
    /\ UNCHANGED <<spiOpen, rstPin, dcPin, display, op, trace, panelInk>>
    /\ UNCHANGED notDriver

NextDriver ==
    \/ DisplayNotFound
    \/ DisplayInit
    \/ DisplayShow
    \/ DisplayClear
    \/ DisplayClose
    \/ HardwareCall
    \/ BusyWait
    \/ HardwareError

\* no wait_until_idle call under test
WaitRest ==
    /\ wtTimeout = 0
    /\ wtIdleAfter = 0
    /\ wtResult = NoWait

\* timeouts a caller configures: at least 1 ms, multiples of the poll
\* interval and not, and the default
TimeoutsMs == {1, 99, 100, 101, 250, 300, 1000, DEFAULT_TIMEOUT_MS}

\* EPD.wait_until_idle(timeout_ms) against the busy line drawn
WaitUntilIdle ==
    /\ wtResult = NoWait
    /\ wtResult' = wait_until_idle(wtTimeout, wtIdleAfter)
    /\ UNCHANGED <<wtTimeout, wtIdleAfter>>
    /\ UNCHANGED notWait

----------------------------------------------------------------------------
(* Dither engine (dither.py).  CIELAB values are kept in fixed point, in   *)
(* units of 1/16: the float64 arithmetic of the source is modelled by      *)
(* integer arithmetic on these units.                                      *)

_IDX_BLACK == 0
_IDX_RED == 1
_IDX_WHITE == 2

\* PALETTE_SRGB, indexed as in the source (0 = black, 1 = red, 2 = white)
PALETTE_SRGB ==
    [i \in 0..2 |-> <<<<0, 0, 0>>, <<192, 48, 43>>, <<255, 255, 255>>>>[i + 1]]

\* a slip: the weights of the tap ahead and the tap below exchanged
_FS_KERNELSwapped == <<<<1, 0, 5>>, <<-1, 1, 3>>, <<0, 1, 7>>, <<1, 1, 1>>>>

\* _FS_KERNEL as (dx, dy, sixteenths)
_FS_KERNEL == <<<<1, 0, 7>>, <<-1, 1, 3>>, <<0, 1, 5>>, <<1, 1, 1>>>>

\* sRGB colours the source images of the model are made of: the three
\* palette colours, a mid grey and an orange
SampleColours ==
    {<<0, 0, 0>>, <<192, 48, 43>>, <<255, 255, 255>>, <<128, 128, 128>>,
     <<255, 128, 0>>}

\* _srgb_to_lab at the sample colours: the value of the pipeline
\* _srgb_to_linear, _linear_to_xyz, _xyz_to_lab, in 1/16 units
_srgb_to_lab(srgb) ==
    CASE srgb = <<0, 0, 0>> -> <<0, 0, 0>>
      [] srgb = <<192, 48, 43>> -> <<696, 898, 608>>
      [] srgb = <<255, 255, 255>> -> <<1600, 0, 0>>
      [] srgb = <<128, 128, 128>> -> <<857, 0, 0>>
      [] srgb = <<255, 128, 0>> -> <<1073, 685, 1184>>

VSub(a, b) == <<a[1] - b[1], a[2] - b[2], a[3] - b[3]>>
VAdd(a, b) == <<a[1] + b[1], a[2] + b[2], a[3] + b[3]>>

\* error * weight for the weight n/16
Weighted(error, n) ==
    <<(error[1] * n) \div 16, (error[2] * n) \div 16, (error[3] * n) \div 16>>

\* a slip: the residual taken against the sRGB palette row
quant_errorSrgb(old, pal, nearest) == VSub(old, PALETTE_SRGB[nearest])

\* error = old - palette_lab[nearest]
quant_error(old, pal, nearest) == VSub(old, pal[nearest])

\* np.sum(diff * diff, axis=1) for one palette row
SqDist(a, b) ==
    LET d == VSub(a, b) IN d[1] * d[1] + d[2] * d[2] + d[3] * d[3]

\* a slip: the last index among the minima (a scan that keeps <=)
NearestLast(pal, old) ==
    CHOOSE i \in 0..2 :
        /\ \A j \in 0..2 : SqDist(pal[i], old) <= SqDist(pal[j], old)
        /\ \A j \in (i + 1)..2 : SqDist(pal[j], old) > SqDist(pal[i], old)

\* int(np.argmin(...)): the first index among the minima
Nearest(pal, old) ==
    CHOOSE i \in 0..2 :
        /\ \A j \in 0..2 : SqDist(pal[i], old) <= SqDist(pal[j], old)
        /\ \A j \in 0..(i - 1) : SqDist(pal[j], old) > SqDist(pal[i], old)

\* the row, column and scan direction of the n-th pixel visited (n from 0)
ScanY(n) == n \div WIDTH

\* a slip: the direction of the taps not mirrored on odd rows
ScanDirFixed(n) == 1

ScanDir(n) == IF ScanY(n) % 2 = 0 THEN 1 ELSE -1

\* a slip: every row scanned from x = 0
ScanXRaster(n) == n % WIDTH

ScanX(n) == IF ScanY(n) % 2 = 0 THEN n % WIDTH ELSE WIDTH - 1 - (n % WIDTH)

RECURSIVE Diffuse(_, _, _, _, _, _)
\* for dx, dy, weight in _FS_KERNEL, from tap t on
Diffuse(pix, x, y, direction, error, t) ==
    IF t > Len(_FS_KERNEL) THEN pix
    ELSE LET nx == x + _FS_KERNEL[t][1] * direction
             ny == y + _FS_KERNEL[t][2]
             npix == IF 0 <= nx /\ nx < WIDTH /\ 0 <= ny /\ ny < HEIGHT
                     THEN [pix EXCEPT ![<<nx, ny>>] =
                              VAdd(@, Weighted(error, _FS_KERNEL[t][3]))]
                     ELSE pix
         IN Diffuse(npix, x, y, direction, error, t + 1)

\* a polarity slip: np.where(result == index, 255, 0)
ExtractLayerInverted(result, index) ==
    [w |-> WIDTH, h |-> HEIGHT,
     ink |-> {q \in Pixels(WIDTH, HEIGHT) : result[q] # index}]

\* a slip: the red layer taken as "not white" (result <= index)
ExtractLayerUpTo(result, index) ==
    [w |-> WIDTH, h |-> HEIGHT,
     ink |-> {q \in Pixels(WIDTH, HEIGHT) : result[q] <= index}]

\* np.where(result == index, 0, 255) as a mode "1" image
ExtractLayer(result, index) ==
    [w |-> WIDTH, h |-> HEIGHT,
     ink |-> {q \in Pixels(WIDTH, HEIGHT) : result[q] = index}]

\* source images: uniform ones, and uniform ones with one pixel of another
\* colour
DitherSources ==
    {[q \in Pixels(WIDTH, HEIGHT) |-> c] : c \in SampleColours}
    \cup {[q \in Pixels(WIDTH, HEIGHT) |-> IF q = <<1, 0>> THEN c2 ELSE c1] :
             c1 \in SampleColours, c2 \in SampleColours}

NoLayers == [black |-> NoImage, red |-> NoImage]

NoRun == [src |-> <<>>, out |-> NoLayers]

\* module import: _PALETTE_LAB = _srgb_to_lab(PALETTE_SRGB); no call yet
InitDither ==
    /\ palette = [i \in 0..2 |-> _srgb_to_lab(PALETTE_SRGB[i])]
    /\ dSrc = <<>>
    /\ dPhase = "idle"
    /\ dPos = 0
    /\ dOrder = <<>>
    /\ dPix = <<>>
    /\ dRes = <<>>
    /\ dOut = NoLayers
    /\ dPrev = NoRun

\* a slip: the accumulated error field of the previous pass kept and added
\* to the new image instead of a fresh array
dither_beginReusePixels(src) ==
    /\ dPix' = [q \in Pixels(WIDTH, HEIGHT) |->
                   IF dPhase = "done"
                   THEN VAdd(_srgb_to_lab(src[q]),
                             VSub(dPix[q], palette[dRes[q]]))
                   ELSE _srgb_to_lab(src[q])]
    /\ dRes' = [q \in Pixels(WIDTH, HEIGHT) |-> 0]

\* pixels = _srgb_to_lab(np.array(img)); result = np.zeros(...)
dither_begin(src) ==
    /\ dPix' = [q \in Pixels(WIDTH, HEIGHT) |-> _srgb_to_lab(src[q])]
    /\ dRes' = [q \in Pixels(WIDTH, HEIGHT) |-> 0]

\* dither_image(source, ...) is called: the image is converted and the pass
\* set up.  The layers of the call before stay known for comparison.
DitherCall ==
    /\ dPhase \in {"idle", "done"}
    /\ \E src \in DitherSources :
          /\ dSrc' = src
          /\ dither_begin(src)
    /\ dPhase' = "running"
    /\ dPos' = 0
    /\ dOrder' = <<>>
    /\ dPrev' = IF dPhase = "done" THEN [src |-> dSrc, out |-> dOut]
                ELSE dPrev
    /\ UNCHANGED <<palette, dOut>>
    /\ UNCHANGED notDither

\* one pixel of the pass: quantize it and spread its error
DitherPixel ==
    /\ dPhase = "running"
    /\ dPos < WIDTH * HEIGHT
    /\ LET x == ScanX(dPos)
           y == ScanY(dPos)
           old == dPix[<<x, y>>]
           nearest == Nearest(palette, old)
           error == quant_error(old, palette, nearest)
       IN /\ dRes' = [dRes EXCEPT ![<<x, y>>] = nearest]
          /\ dPix' = Diffuse(dPix, x, y, ScanDir(dPos), error, 1)
          /\ dOrder' = Append(dOrder, <<x, y>>)
    /\ dPos' = dPos + 1
    /\ UNCHANGED <<palette, dSrc, dPhase, dOut, dPrev>>
    /\ UNCHANGED notDither

\* the pass is over: the two layers are extracted and returned
DitherReturn ==
    /\ dPhase = "running"
    /\ dPos = WIDTH * HEIGHT
    /\ dOut' = [black |-> ExtractLayer(dRes, _IDX_BLACK),
                red |-> ExtractLayer(dRes, _IDX_RED)]
    /\ dPhase' = "done"
    /\ UNCHANGED <<palette, dSrc, dPos, dOrder, dPix, dRes, dPrev>>
    /\ UNCHANGED notDither

\* accumulated values a pixel can reach: a grid that holds the palette
\* entries, the midpoints of each pair of them, and values outside the gamut
QuantInputs ==
    {<<l, a, b>> : l \in {-200, 0, 348, 696, 800, 1148, 1600, 1800},
                   a \in {0, 449, 898}, b \in {0, 304, 608}}

NotYet == -1

\* no quantization under test
QuantRest ==
    /\ nqOld = <<0, 0, 0>>
    /\ nqNearest = NotYet

\* diff = palette_lab - old; distances = np.sum(diff * diff, axis=1);
\* nearest = int(np.argmin(distances))
Quantize ==
    /\ nqNearest = NotYet
    /\ nqNearest' = Nearest(palette, nqOld)
    /\ UNCHANGED nqOld
    /\ UNCHANGED notQuant

NextDither == DitherCall \/ DitherPixel \/ DitherReturn

\* dither_image not under test
DitherRest == InitDither

----------------------------------------------------------------------------
(* Layer composer (composer.py).  A plane is a mode "1" image; ImageDraw   *)
(* with fill=INK or outline=INK adds ink to the image it was made for and  *)
(* clips at the image's edge.                                              *)

\* ImageDraw.Draw(img) drawing the pixel set with INK
draw_on(img, pixels) ==
    [img EXCEPT !.ink = @ \cup {q \in pixels : /\ 0 <= q[1] /\ q[1] < img.w
                                                /\ 0 <= q[2] /\ q[2] < img.h}]

\* rectangle([(x0, y0), (x1, y1)], fill=INK): both corners included
RectFill(x0, y0, x1, y1) == (x0..x1) \X (y0..y1)

\* rectangle([(x0, y0), (x1, y1)], outline=INK): the one-pixel border
RectOutline(x0, y0, x1, y1) ==
    RectFill(x0, y0, x1, y1) \ RectFill(x0 + 1, y0 + 1, x1 - 1, y1 - 1)

\* ellipse([(x0, y0), (x1, y1)], fill=INK): the pixels whose centre lies in
\* the ellipse inscribed in the box
EllipseFill(x0, y0, x1, y1) ==
    LET ew == x1 - x0 + 1
        eh == y1 - y0 + 1
    IN {q \in RectFill(x0, y0, x1, y1) :
           (2 * q[1] - x0 - x1) * (2 * q[1] - x0 - x1) * eh * eh
           + (2 * q[2] - y0 - y1) * (2 * q[2] - y0 - y1) * ew * ew
           <= ew * ew * eh * eh}

\* ellipse([(x0, y0), (x1, y1)], outline=INK): the rim of the filled ellipse
EllipseOutline(x0, y0, x1, y1) ==
    LET e == EllipseFill(x0, y0, x1, y1)
    IN {q \in e : \E d \in {<<1, 0>>, <<-1, 0>>, <<0, 1>>, <<0, -1>>} :
                     <<q[1] + d[1], q[2] + d[2]>> \notin e}

Abs(n) == IF n < 0 THEN -n ELSE n

\* line([(x0, y0), (x1, y1)], fill=INK, width=width): one pixel per step
\* along the longer axis, thickened across it to the stroke width
LinePixels(x0, y0, x1, y1, width) ==
    LET dx == x1 - x0
        dy == y1 - y0
        n == IF Abs(dx) >= Abs(dy) THEN Abs(dx) ELSE Abs(dy)
        thin == IF n = 0 THEN {<<x0, y0>>}
                ELSE {<<x0 + (2 * i * dx + n) \div (2 * n),
                        y0 + (2 * i * dy + n) \div (2 * n)>> : i \in 0..n}
        offs == {k - (width - 1) \div 2 : k \in 0..(width - 1)}
    IN IF Abs(dx) >= Abs(dy) /\ n > 0
       THEN {<<q[1], q[2] + o>> : q \in thin, o \in offs}
       ELSE {<<q[1] + o, q[2]>> : q \in thin, o \in offs}

\* the font handed to the composer: every glyph advances by GlyphAdvance
GlyphAdvance == 2

\* the ink of a glyph relative to its origin
GlyphInk(ch) ==
    CASE ch = "I" -> {<<0, 0>>, <<0, 1>>, <<0, 2>>}
      [] ch = "-" -> {<<0, 1>>}

\* draw.textlength(text, font=font)
textlength(text) == GlyphAdvance * Len(text)

\* draw.text((x, y), text, fill=INK, font=font)
TextPixels(x, y, text) ==
    UNION {{<<x + GlyphAdvance * (i - 1) + o[1], y + o[2]>> :
               o \in GlyphInk(text[i])} : i \in 1..Len(text)}

\* a slip: every colour routed to the black plane
_drawAlwaysBlack(color) == "black"

\* Composer._draw: the plane a colour is routed to
_draw(color) == IF color = "red" THEN "red" ELSE "black"

\* a slip: escalation only above the threshold
bar_colorAbove(percent, color, critical_threshold) ==
    IF percent > critical_threshold THEN "red" ELSE color

\* bar_color = "red" if percent >= critical_threshold else color
\* (percent and critical_threshold in tenths of a percent)
bar_color(percent, color, critical_threshold) ==
    IF percent >= critical_threshold THEN "red" ELSE color

\* int(v / d) for an integer v: truncation towards zero
IntDiv(v, d) == IF v >= 0 THEN v \div d ELSE -((-v) \div d)

\* fill_w = max(0, int((width - 2) * min(percent, 100) / 100))
fill_w(width, percent) ==
    LET capped == IF percent < 1000 THEN percent ELSE 1000
        w == IntDiv((width - 2) * capped, 1000)
    IN IF w > 0 THEN w ELSE 0

Colors == {"black", "red"}

\* arguments the drawing calls are made with
Boxes == {<<0, 0, 2, 2>>, <<1, 1, 4, 5>>, <<3, 2, 3, 2>>}

Segments == {<<0, 0, 4, 0>>, <<1, 0, 1, 6>>, <<0, 0, 3, 5>>}

Texts == {<<"I">>, <<"-", "I">>}

\* (x, y, width, height) of the progress bars drawn
BarBoxes == {<<0, 1, 4, 3>>, <<1, 0, 2, 2>>}

\* percent and critical_threshold, in tenths of a percent
Percents == {0, 500, 849, 850, 1000, 1200}

Thresholds == {850, 1000}

\* layer pairs handed to paste_image
PasteLayers ==
    {<<NewImage(WIDTH, HEIGHT), NewImage(WIDTH, HEIGHT)>>,
     <<[NewImage(WIDTH, HEIGHT) EXCEPT !.ink = {<<0, 0>>}],
       [NewImage(WIDTH, HEIGHT) EXCEPT !.ink = {<<1, 1>>}]>>}

CallOf(name, color) ==
    [op |-> name, color |-> color, percent |-> 0, critical_threshold |-> 0,
     box |-> <<0, 0, 0, 0>>]

NoCall == CallOf("none", "black")

\* Composer.__init__: two blank planes
InitComposer ==
    /\ cBlack = NewImage(WIDTH, HEIGHT)
    /\ cRed = NewImage(WIDTH, HEIGHT)
    /\ cCall = NoCall
    /\ cDraws = 0

\* self._draw(color).<primitive>(..., INK) followed by the return
Drawn(name, color, pixels) ==
    /\ cBlack' = IF _draw(color) = "black" THEN draw_on(cBlack, pixels)
                 ELSE cBlack
    /\ cRed' = IF _draw(color) = "red" THEN draw_on(cRed, pixels) ELSE cRed
    /\ cCall' = CallOf(name, color)
    /\ cDraws' = cDraws + 1
    /\ UNCHANGED notComposer

\* main.render_current makes a fresh Composer for the next screen
NewComposer ==
    /\ cDraws > 0
    /\ cBlack' = NewImage(WIDTH, HEIGHT)
    /\ cRed' = NewImage(WIDTH, HEIGHT)
    /\ cCall' = NoCall
    /\ cDraws' = 0
    /\ UNCHANGED notComposer

Composer_text ==
    /\ cDraws < MaxDraws
    /\ \E xy \in {<<0, 0>>, <<2, 3>>}, text \in Texts, color \in Colors :
          Drawn("text", color, TextPixels(xy[1], xy[2], text))

Composer_text_centered ==
    /\ cDraws < MaxDraws
    /\ \E y \in {1}, text \in Texts, color \in Colors :
          LET tw == textlength(text)
              x == (WIDTH - tw) \div 2
          IN Drawn("text_centered", color, TextPixels(x, y, text))

Composer_text_right ==
    /\ cDraws < MaxDraws
    /\ \E y \in {2}, text \in Texts, color \in Colors, margin \in {4, 0} :
          LET tw == textlength(text)
              x == WIDTH - tw - margin
          IN Drawn("text_right", color, TextPixels(x, y, text))

Composer_rect ==
    /\ cDraws < MaxDraws
    /\ \E xy \in Boxes, color \in Colors, fill \in BOOLEAN :
          Drawn("rect", color,
                IF fill THEN RectFill(xy[1], xy[2], xy[3], xy[4])
                ELSE RectOutline(xy[1], xy[2], xy[3], xy[4]))

Composer_line ==
    /\ cDraws < MaxDraws
    /\ \E xy \in Segments, color \in Colors, width \in {1, 2} :
          Drawn("line", color, LinePixels(xy[1], xy[2], xy[3], xy[4], width))

\* hline calls self.line((x0, y, x1, y), color=color); x0 = 4 and
\* x1 = WIDTH - 4 unless given
Composer_hline ==
    /\ cDraws < MaxDraws
    /\ \E y \in {1, 6}, color \in Colors,
          xs \in {<<4, WIDTH - 4>>, <<0, 3>>} :
          Drawn("hline", color, LinePixels(xs[1], y, xs[2], y, 1))

Composer_ellipse ==
    /\ cDraws < MaxDraws
    /\ \E xy \in Boxes, color \in Colors, fill \in BOOLEAN :
          Drawn("ellipse", color,
                IF fill THEN EllipseFill(xy[1], xy[2], xy[3], xy[4])
                ELSE EllipseOutline(xy[1], xy[2], xy[3], xy[4]))

Composer_progress_bar ==
    /\ cDraws < MaxDraws
    /\ \E b \in BarBoxes, percent \in Percents, color \in Colors,
          critical_threshold \in Thresholds :
          LET x == b[1]
              y == b[2]
              width == b[3]
              height == b[4]
              bc == bar_color(percent, color, critical_threshold)
              outlined == draw_on(cBlack,
                                  RectOutline(x, y, x + width, y + height))
              fw == fill_w(width, percent)
              fill == RectFill(x + 1, y + 1, x + 1 + fw, y + height - 1)
          IN /\ cBlack' = IF fw > 0 /\ _draw(bc) = "black"
                          THEN draw_on(outlined, fill) ELSE outlined
             /\ cRed' = IF fw > 0 /\ _draw(bc) = "red"
                        THEN draw_on(cRed, fill) ELSE cRed
             /\ cCall' = [op |-> "progress_bar", color |-> color,
                          percent |-> percent,
                          critical_threshold |-> critical_threshold,
                          box |-> b]
    /\ cDraws' = cDraws + 1
    /\ UNCHANGED notComposer

\* label_value: the label in one colour, the value after it in another
Composer_label_value ==
    /\ cDraws < MaxDraws
    /\ \E label \in Texts, label_color \in Colors, value_color \in Colors,
          gap \in {1, 3} :
          LET x == 0
              y == 4
              lw == textlength(label)
              labelled == [black |-> IF _draw(label_color) = "black"
                                     THEN draw_on(cBlack,
                                                  TextPixels(x, y, label))
                                     ELSE cBlack,
                           red |-> IF _draw(label_color) = "red"
                                   THEN draw_on(cRed, TextPixels(x, y, label))
                                   ELSE cRed]
              value == TextPixels(x + lw + gap, y, <<"I">>)
          IN /\ cBlack' = IF _draw(value_color) = "black"
                          THEN draw_on(labelled.black, value)
                          ELSE labelled.black
             /\ cRed' = IF _draw(value_color) = "red"
                        THEN draw_on(labelled.red, value) ELSE labelled.red
             /\ cCall' = CallOf("label_value", label_color)
    /\ cDraws' = cDraws + 1
    /\ UNCHANGED notComposer

\* paste_image: canvas-sized layers pasted at (0, 0) replace both planes
Composer_paste_image ==
    /\ cDraws < MaxDraws
    /\ \E layers \in PasteLayers :
          /\ cBlack' = layers[1]
          /\ cRed' = layers[2]
    /\ cCall' = CallOf("paste_image", "black")
    /\ cDraws' = cDraws + 1
    /\ UNCHANGED notComposer

NextComposer ==
    \/ NewComposer
    \/ Composer_text
    \/ Composer_text_centered
    \/ Composer_text_right
    \/ Composer_rect
    \/ Composer_line
    \/ Composer_hline
    \/ Composer_ellipse
    \/ Composer_progress_bar
    \/ Composer_label_value
    \/ Composer_paste_image

\* no Composer in use
ComposerRest == InitComposer

----------------------------------------------------------------------------
(* Packer operations.  getbuffer is a pure function of the image: the    *)
(* packer specification draws the mask first and then packs it, either     *)
(* directly (the rotating branch) or the way Display.show does.            *)

\* EPD.getbuffer(mask) on the landscape mask: the rotating branch
PackLandscape ==
    /\ pkVia = "none"
    /\ pkVia' = "getbuffer"
    /\ pkBuf' = getbuffer(pkImg)
    /\ UNCHANGED pkImg
    /\ UNCHANGED notPack

\* Display.show's path: rotate first, then the already-portrait branch
PackRotated ==
    /\ pkVia = "none"
    /\ pkVia' = "show"
    /\ pkBuf' = getbuffer(Rotate90(pkImg))
    /\ UNCHANGED pkImg
    /\ UNCHANGED notPack

\* masks of another size than the canvas, in either orientation
MismatchedMasks ==
    {[w |-> d[1], h |-> d[2], ink |-> s] :
        d \in {<<WIDTH - 1, HEIGHT>>, <<WIDTH, HEIGHT + 1>>,
               <<EPD_WIDTH + 1, EPD_HEIGHT>>},
        s \in {{}, {<<0, 0>>}}}

\* EPD.getbuffer(mask) on a mask of another size, directly or after the
\* rotation of Display.show: neither branch is taken, buf is returned
PackMismatched ==
    /\ pkVia = "none"
    /\ \E img \in MismatchedMasks, rotated \in BOOLEAN :
          /\ pkImg' = img
          /\ pkBuf' = getbuffer(IF rotated THEN Rotate90(img) ELSE img)
    /\ pkVia' = "neither branch"
    /\ UNCHANGED notPack

\* no mask has been handed to the packer
PackRest ==
    /\ pkImg = NoImage
    /\ pkVia = "none"
    /\ pkBuf = <<>>

----------------------------------------------------------------------------
(* The main loop (main.py), in hardware mode: display is a Display *)

\* len(screens): the six screens main() constructs
total == 6

\* KEY1 without the wrap-around
prev_screenNoWrap(idx) == idx - 1

\* KEY1: screen_idx = (screen_idx - 1) % total
prev_screen(idx) == (idx - 1) % total

\* KEY2, and the refresh timeout under auto-cycle:
\* screen_idx = (screen_idx + 1) % total
next_screen(idx) == (idx + 1) % total

\* an inner loop that does not test running
poll_continuesAlways(r) == TRUE

\* the test of the inner "while running"
poll_continues(r) == r

\* what inp.poll() returns
PollEvents == {"KEY1", "KEY2", "KEY3", "KEY4", "None"}

\* main() has set its locals and installed the handlers, and enters the try
InitMain ==
    /\ screen_idx = 0
    /\ auto_cycle = FALSE
    /\ running = TRUE
    /\ mPc = "loop"
    /\ mEvent = "none"
    /\ mFrom = 0
    /\ mCloses = 0
    /\ mExit = "none"

\* shutdown(): SIGINT or SIGTERM is delivered, at any point of main()
Signal ==
    /\ mPc # "exited"
    /\ running' = FALSE
    /\ UNCHANGED <<screen_idx, auto_cycle, mPc, mEvent, mFrom, mCloses,
                   mExit>>
    /\ UNCHANGED notMain

\* the test of the outer "while running"
LoopTest ==
    /\ mPc = "loop"
    /\ IF running
         THEN mPc' = "render" /\ mExit' = mExit
         ELSE mPc' = "finally" /\ mExit' = "signal"
    /\ UNCHANGED <<screen_idx, auto_cycle, running, mEvent, mFrom, mCloses>>
    /\ UNCHANGED notMain

\* render_current() returns: the screen is rendered and shown
Render ==
    /\ mPc = "render"
    /\ mPc' = "poll"
    /\ UNCHANGED <<screen_idx, auto_cycle, running, mEvent, mFrom, mCloses,
                   mExit>>
    /\ UNCHANGED notMain

\* render_current() raises (screen.render or display.show)
RenderRaises ==
    /\ mPc = "render"
    /\ mPc' = "finally"
    /\ mExit' = "exception"
    /\ UNCHANGED <<screen_idx, auto_cycle, running, mEvent, mFrom, mCloses>>
    /\ UNCHANGED notMain

\* the test of the inner "while running"
PollTest ==
    /\ mPc = "poll"
    /\ mPc' = IF poll_continues(running) THEN "event" ELSE "loop"
    /\ UNCHANGED <<screen_idx, auto_cycle, running, mEvent, mFrom, mCloses,
                   mExit>>
    /\ UNCHANGED notMain

\* elapsed >= REFRESH_INTERVAL
RefreshTimeout ==
    /\ mPc = "event"
    /\ mEvent' = "timeout"
    /\ mFrom' = screen_idx
    /\ screen_idx' = IF auto_cycle THEN next_screen(screen_idx)
                     ELSE screen_idx
    /\ mPc' = "loop"
    /\ UNCHANGED <<auto_cycle, running, mCloses, mExit>>
    /\ UNCHANGED notMain

\* the refresh is not due and inp.poll() returns event
PollEvent(event) ==
    /\ mPc = "event"
    /\ mEvent' = event
    /\ mFrom' = screen_idx
    /\ screen_idx' = CASE event = "KEY1" -> prev_screen(screen_idx)
                       [] event = "KEY2" -> next_screen(screen_idx)
                       [] OTHER -> screen_idx
    /\ auto_cycle' = IF event = "KEY4" THEN ~auto_cycle ELSE auto_cycle
    /\ mPc' = IF event \in {"KEY1", "KEY2", "KEY3"} THEN "loop" ELSE "poll"
    /\ UNCHANGED <<running, mCloses, mExit>>
    /\ UNCHANGED notMain

Poll == \E event \in PollEvents : PollEvent(event)

\* inp.poll() raises
PollRaises ==
    /\ mPc = "event"
    /\ mEvent' = "raised"
    /\ mFrom' = screen_idx
    /\ mPc' = "finally"
    /\ mExit' = "exception"
    /\ UNCHANGED <<screen_idx, auto_cycle, running, mCloses>>
    /\ UNCHANGED notMain

\* the finally clause: display.close(), then main() is left
Finally ==
    /\ mPc = "finally"
    /\ mCloses' = mCloses + 1
    /\ mPc' = "exited"
    /\ UNCHANGED <<screen_idx, auto_cycle, running, mEvent, mFrom, mExit>>
    /\ UNCHANGED notMain

\* the steps of the main thread
MainThread ==
    \/ LoopTest
    \/ Render
    \/ RenderRaises
    \/ PollTest
    \/ RefreshTimeout
    \/ Poll
    \/ PollRaises
    \/ Finally

NextMain == MainThread \/ Signal

\* main() has not been entered
MainRest ==
    /\ screen_idx = 0
    /\ auto_cycle = FALSE
    /\ running = TRUE
    /\ mPc = "none"
    /\ mEvent = "none"
    /\ mFrom = 0
    /\ mCloses = 0
    /\ mExit = "none"

----------------------------------------------------------------------------
(* The photo cache (photos.py) *)

\* photos the cache keeps; the source keeps 10
CacheSlots == 2

MAX_CACHED == CacheSlots

\* photos per API call; the source asks for as many as it caches
FETCH_COUNT == CacheSlots

\* the photos Unsplash can answer with: one more than the cache holds
PhotoIds == 1..(MAX_CACHED + 1)

\* a photo of the list: its id and the url of its image
PhotoOf(i) == [id |-> i, url |-> <<"small", i>>]

\* _hash_url: the digest of the url names the files; distinct urls have
\* distinct digests
_hash_url(url) == <<"sha256", url>>

Suffixes == {".jpg", "_black.png", "_red.png"}

\* jpg_path, black_path, red_path
FilesOf(h) == {<<h, sfx>> : sfx \in Suffixes}

\* the main thread, and the thread start_background_refresh starts
MainThreadId == "main"

WorkerId == "worker"

Threads == {MainThreadId, WorkerId}

\* _known_ids
_known_ids(photos) == {photos[i].id : i \in 1..Len(photos)}

\* [p for p in photo_list if p["id"] not in known]
RECURSIVE NewPhotos(_, _)
NewPhotos(photo_list, known) ==
    IF photo_list = <<>> THEN <<>>
    ELSE LET rest == NewPhotos(Tail(photo_list), known)
         IN  IF Head(photo_list).id \in known THEN rest
             ELSE <<Head(photo_list)>> \o rest

\* lists of n different photos
ListsOf(n) ==
    {l \in [1..n -> {PhotoOf(i) : i \in PhotoIds}] :
        \A a, b \in 1..n : a # b => l[a] # l[b]}

\* what _fetch_photo_list can return: FETCH_COUNT different photos
PhotoLists == ListsOf(FETCH_COUNT)

\* a loop that evicts nothing
EvictCountNone(n) == 0

\* while len(photos) > MAX_CACHED: pop(0), the number of rounds
EvictCount(n) == IF n > MAX_CACHED THEN n - MAX_CACHED ELSE 0

\* _evict_oldest on the list photos: what is left, what was popped, and the
\* files unlinked
_evict_oldest(photos) ==
    LET k == EvictCount(Len(photos))
    IN  [left |-> SubSeq(photos, k + 1, Len(photos)),
         evicted |-> SubSeq(photos, 1, k),
         unlinked |-> UNION {FilesOf(photos[i].hash) : i \in 1..k}]

\* the entry _process_one appends for photo
EntryOf(photo) ==
    [id |-> photo.id, url |-> photo.url, hash |-> _hash_url(photo.url)]

NoPhoto == [id |-> 0, url |-> <<>>]

\* no call of _process_one yet
NoProcess == [photo |-> NoPhoto, pc |-> "none", ok |-> FALSE,
              evicted |-> <<>>]

\* _process_one(photo) is entered
Enters(photo) == [photo |-> photo, pc |-> "download", ok |-> FALSE,
                  evicted |-> <<>>]

\* PhotoCache(): no meta.json yet, an empty CACHE_DIR, no threads
InitPhoto ==
    /\ meta = <<>>
    /\ files = {}
    /\ pending = <<>>
    /\ tOp = [t \in Threads |-> "idle"]
    /\ tQueue = [t \in Threads |-> <<>>]
    /\ tCall = [t \in Threads |-> NoProcess]

\* the thread is between two calls of _process_one
Between(t) == tCall[t].pc \in {"none", "returned"}

\* refresh_first(), up to its call of _process_one
RefreshFirst ==
    /\ tOp[MainThreadId] = "idle"
    /\ \E photo_list \in PhotoLists :
          LET new_photos == NewPhotos(photo_list, _known_ids(meta))
          IN  IF new_photos = <<>>
                THEN /\ pending' = <<>>
                     /\ UNCHANGED <<tOp, tQueue, tCall>>
                ELSE /\ pending' = Tail(new_photos)
                     /\ tOp' = [tOp EXCEPT ![MainThreadId] = "refresh_first"]
                     /\ tCall' = [tCall EXCEPT
                                     ![MainThreadId] = Enters(new_photos[1])]
                     /\ UNCHANGED tQueue
    /\ UNCHANGED <<meta, files>>
    /\ UNCHANGED notPhoto

\* start_background_refresh(); the model starts the worker only when the
\* one before it has ended
StartBackgroundRefresh ==
    /\ tOp[MainThreadId] = "idle"
    /\ tOp[WorkerId] = "idle"
    /\ pending # <<>>
    /\ tQueue' = [tQueue EXCEPT ![WorkerId] = pending]
    /\ pending' = <<>>
    /\ tOp' = [tOp EXCEPT ![WorkerId] = "_worker"]
    /\ UNCHANGED <<meta, files, tCall>>
    /\ UNCHANGED notPhoto

\* refresh(), up to its loop: the photos the loop does not skip
Refresh ==
    /\ tOp[MainThreadId] = "idle"
    /\ \E photo_list \in PhotoLists :
          tQueue' = [tQueue EXCEPT
                        ![MainThreadId] =
                            NewPhotos(photo_list, _known_ids(meta))]
    /\ tOp' = [tOp EXCEPT ![MainThreadId] = "refresh"]
    /\ UNCHANGED <<meta, files, pending, tCall>>
    /\ UNCHANGED notPhoto

\* the loop of refresh() or of _worker() calls _process_one on its next photo
NextPhoto(t) ==
    /\ tOp[t] \in {"refresh", "_worker"}
    /\ Between(t)
    /\ tQueue[t] # <<>>
    /\ tCall' = [tCall EXCEPT ![t] = Enters(Head(tQueue[t]))]
    /\ tQueue' = [tQueue EXCEPT ![t] = Tail(tQueue[t])]
    /\ UNCHANGED <<meta, files, pending, tOp>>
    /\ UNCHANGED notPhoto

\* refresh_first(), refresh() or _worker() returns
Returns(t) ==
    /\ tOp[t] # "idle"
    /\ Between(t)
    /\ tQueue[t] = <<>>
    /\ tOp' = [tOp EXCEPT ![t] = "idle"]
    /\ tCall' = [tCall EXCEPT ![t] = NoProcess]
    /\ UNCHANGED <<meta, files, pending, tQueue>>
    /\ UNCHANGED notPhoto

\* a step of _process_one that writes the file with suffix sfx: it succeeds,
\* or raises with the file written or not
Writes(t, at, sfx, then) ==
    /\ tCall[t].pc = at
    /\ \E raised \in BOOLEAN, written \in BOOLEAN :
          /\ ~raised => written
          /\ files' = IF written
                        THEN files \cup
                                 {<<_hash_url(tCall[t].photo.url), sfx>>}
                        ELSE files
          /\ tCall' = [tCall EXCEPT
                          ![t].pc = IF raised THEN "except" ELSE then]
    /\ UNCHANGED <<meta, pending, tOp, tQueue>>
    /\ UNCHANGED notPhoto

\* _http_get and jpg_path.write_bytes
Download(t) == Writes(t, "download", ".jpg", "dither")

\* Image.open, _cover_crop, dither_image and black_layer.save
DitherAndSaveBlack(t) == Writes(t, "dither", "_black.png", "save_red")

\* red_layer.save
SaveRed(t) == Writes(t, "save_red", "_red.png", "lock")

\* with self._lock: append, _evict_oldest, _save_meta; _save_meta writes
\* meta.json or raises
Commit(t) ==
    /\ tCall[t].pc = "lock"
    /\ LET e == _evict_oldest(Append(meta, EntryOf(tCall[t].photo)))
       IN  /\ meta' = e.left
           /\ files' = files \ e.unlinked
           /\ \E saved \in BOOLEAN :
                 tCall' = [tCall EXCEPT
                              ![t].evicted = e.evicted,
                              ![t].ok = saved,
                              ![t].pc = IF saved THEN "returned"
                                        ELSE "except"]
    /\ UNCHANGED <<pending, tOp, tQueue>>
    /\ UNCHANGED notPhoto

\* except Exception: the three files are unlinked, False is returned
Except(t) ==
    /\ tCall[t].pc = "except"
    /\ files' = files \ FilesOf(_hash_url(tCall[t].photo.url))
    /\ tCall' = [tCall EXCEPT ![t].ok = FALSE, ![t].pc = "returned"]
    /\ UNCHANGED <<meta, pending, tOp, tQueue>>
    /\ UNCHANGED notPhoto

\* a step of _process_one
_process_one(t) ==
    \/ Download(t)
    \/ DitherAndSaveBlack(t)
    \/ SaveRed(t)
    \/ Commit(t)
    \/ Except(t)

NextPhotoCache ==
    \/ RefreshFirst
    \/ StartBackgroundRefresh
    \/ Refresh
    \/ \E t \in Threads : NextPhoto(t)
    \/ \E t \in Threads : Returns(t)
    \/ \E t \in Threads : _process_one(t)

\* no PhotoCache has been made
PhotoRest ==
    /\ meta = <<>>
    /\ files = {}
    /\ pending = <<>>
    /\ tOp = [t \in Threads |-> "none"]
    /\ tQueue = [t \in Threads |-> <<>>]
    /\ tCall = [t \in Threads |-> NoProcess]

----------------------------------------------------------------------------
(* Specifications *)

\* the packer: a landscape mask is drawn, then packed
InitPack ==
    /\ pkImg \in LandscapeMasks
    /\ pkVia = "none"
    /\ pkBuf = <<>>
    /\ InitDriver
    /\ WaitRest
    /\ DitherRest
    /\ ComposerRest
    /\ QuantRest
    /\ MainRest
    /\ PhotoRest

NextPack == PackLandscape \/ PackRotated \/ PackMismatched

SpecPack == InitPack /\ [][NextPack]_vars

\* the driver: the process starts with no Display and the hardware unopened
InitDisplay ==
    /\ InitDriver
    /\ PackRest
    /\ WaitRest
    /\ DitherRest
    /\ ComposerRest
    /\ QuantRest
    /\ MainRest
    /\ PhotoRest

SpecDriver == InitDisplay /\ [][NextDriver]_vars

\* the busy wait: a timeout and a busy line are drawn, then waited on
InitWait ==
    /\ wtTimeout \in TimeoutsMs
    /\ wtIdleAfter \in (0..WaitBusyReads) \cup {Never}
    /\ wtResult = NoWait
    /\ InitDriver
    /\ PackRest
    /\ DitherRest
    /\ ComposerRest
    /\ QuantRest
    /\ MainRest
    /\ PhotoRest

NextWait == WaitUntilIdle

SpecWait == InitWait /\ [][NextWait]_vars

\* the dither engine: the module is imported, then dither_image is called
\* any number of times
InitDitherEngine ==
    /\ InitDither
    /\ InitDriver
    /\ PackRest
    /\ WaitRest
    /\ ComposerRest
    /\ QuantRest
    /\ MainRest
    /\ PhotoRest

SpecDither == InitDitherEngine /\ [][NextDither]_vars

\* the layer composer: a Composer is made and drawn on
InitLayerComposer ==
    /\ InitComposer
    /\ InitDriver
    /\ PackRest
    /\ WaitRest
    /\ DitherRest
    /\ QuantRest
    /\ MainRest
    /\ PhotoRest

SpecComposer == InitLayerComposer /\ [][NextComposer]_vars

\* the quantizer: an accumulated value is drawn, then quantized against the
\* module-level palette
InitQuantizer ==
    /\ nqOld \in QuantInputs
    /\ nqNearest = NotYet
    /\ InitDither
    /\ InitDriver
    /\ PackRest
    /\ WaitRest
    /\ ComposerRest
    /\ MainRest
    /\ PhotoRest

NextQuantizer == Quantize

SpecQuantizer == InitQuantizer /\ [][NextQuantizer]_vars

\* the main loop: main() runs in hardware mode and signals arrive
InitMainLoop ==
    /\ InitMain
    /\ InitDriver
    /\ PackRest
    /\ WaitRest
    /\ DitherRest
    /\ ComposerRest
    /\ QuantRest
    /\ PhotoRest

SpecMain == InitMainLoop /\ [][NextMain]_vars

\* the same with the main thread scheduled: the interpreter keeps running
\* main() until it returns; no signal need ever arrive
SpecMainFair == InitMainLoop /\ [][NextMain]_vars /\ WF_vars(MainThread)

\* the photo cache: a PhotoCache is made on an empty cache directory and its
\* refresh operations are called from the main thread
InitPhotoCache ==
    /\ InitPhoto
    /\ InitDriver
    /\ PackRest
    /\ WaitRest
    /\ DitherRest
    /\ ComposerRest
    /\ QuantRest
    /\ MainRest

SpecPhotos == InitPhotoCache /\ [][NextPhotoCache]_vars

\* the photo cache called synchronously: refresh_first() and refresh() on
\* the main thread, no background worker (the demo mode of the cache)
NextPhotoSync ==
    \/ RefreshFirst
    \/ Refresh
    \/ NextPhoto(MainThreadId)
    \/ Returns(MainThreadId)
    \/ _process_one(MainThreadId)

SpecPhotoSync == InitPhotoCache /\ [][NextPhotoSync]_vars





----------------------------------------------------------------------------
(* Properties of the packer *)

\* the bit of physical pixel (px, py): 8 pixels per byte, most significant
\* bit first, rows of EPD_WIDTH pixels
PhysBit(buf, px, py) ==
    (buf[((px + py * EPD_WIDTH) \div 8) + 1] \div Pow2(7 - (px % 8))) % 2

\* the inverse bit extraction: logical (x, y) has ink iff the bit of
\* physical pixel (y, EPD_HEIGHT - x - 1) is 1
Unpack(buf) ==
    [w |-> EPD_HEIGHT, h |-> EPD_WIDTH,
     ink |-> {p \in Pixels(EPD_HEIGHT, EPD_WIDTH) :
                 PhysBit(buf, p[2], EPD_HEIGHT - p[1] - 1) = 1}]

\* C3: packing a landscape ink mask with getbuffer and unpacking the buffer
\* by the inverse bit extraction gives back exactly the mask that was packed.
C3_PackUnpackRoundTrip ==
    pkVia = "getbuffer" => Unpack(pkBuf) = pkImg

\* a mask with one ink pixel has been packed by the rotating branch
C3_Witness ==
    /\ pkVia = "getbuffer"
    /\ Cardinality(pkImg.ink) = 1
    /\ Len(pkBuf) > 0

\* C4: getbuffer on a landscape mask returns EPD_WIDTH * EPD_HEIGHT / 8 bytes
\* (5,808 for the 176 x 264 panel); the bit of physical pixel
\* (y, EPD_HEIGHT - x - 1) is 0 where logical pixel (x, y) has no ink and 1
\* where it has ink; every bit of the buffer is the bit of one logical pixel,
\* so no other bit differs from the all-ones start.
C4_GetbufferBits ==
    pkVia = "getbuffer" =>
        /\ Len(pkBuf) * 8 = EPD_WIDTH * EPD_HEIGHT
        /\ \A i \in 1..Len(pkBuf) : pkBuf[i] \in 0..255
        /\ \A x \in 0..(pkImg.w - 1), y \in 0..(pkImg.h - 1) :
              PhysBit(pkBuf, y, EPD_HEIGHT - x - 1)
                  = (IF <<x, y>> \in pkImg.ink THEN 1 ELSE 0)
        /\ \A px \in 0..(EPD_WIDTH - 1), py \in 0..(EPD_HEIGHT - 1) :
              PhysBit(pkBuf, px, py) = 0 =>
                  <<EPD_HEIGHT - py - 1, px>> \notin pkImg.ink

\* a mask that has ink everywhere but at one pixel has been packed
C4_Witness ==
    /\ pkVia = "getbuffer"
    /\ Cardinality(pkImg.ink) = WIDTH * HEIGHT - 1
    /\ \E i \in 1..Len(pkBuf) : pkBuf[i] # 255

----------------------------------------------------------------------------
(* Properties of the driver *)

IsBus(c) == c.k \in {"spi", "wait"}

\* what the panel sees of a trace: each byte transferred, as a command (data/
\* command line low) or as data (line high), and each busy-wait
BusOf(tr) ==
    LET b == SelectSeq(tr, IsBus)
    IN [i \in 1..Len(b) |->
           IF b[i].k = "wait" THEN [t |-> "wait", b |-> 0]
           ELSE IF b[i].dc = 0 THEN [t |-> "cmd", b |-> b[i].v]
           ELSE [t |-> "data", b |-> b[i].v]]

Cmd(byte) == [t |-> "cmd", b |-> byte]

\* bytes of one plane: 5,808 for the 176 x 264 panel
PlaneBytes == (EPD_WIDTH * EPD_HEIGHT) \div 8

\* resolution-set with 4 data bytes; 0x10, PlaneBytes data bytes, 0x11; 0x13,
\* PlaneBytes data bytes, 0x11; 0x12; a busy-wait; and nothing else
FrameCycle(bus) ==
    LET n == PlaneBytes
    IN /\ Len(bus) = 11 + 2 * n
       /\ bus[1] = Cmd(97)
       /\ \A i \in 2..5 : bus[i].t = "data"
       /\ bus[6] = Cmd(16)
       /\ \A i \in 7..(6 + n) : bus[i].t = "data"
       /\ bus[7 + n] = Cmd(17)
       /\ bus[8 + n] = Cmd(19)
       /\ \A i \in (9 + n)..(8 + 2 * n) : bus[i].t = "data"
       /\ bus[9 + 2 * n] = Cmd(17)
       /\ bus[10 + 2 * n] = Cmd(18)
       /\ bus[11 + 2 * n].t = "wait"

\* the plane data of a frame cycle
PlaneData(bus) ==
    LET n == PlaneBytes
    IN {bus[i].b : i \in (7..(6 + n)) \cup ((9 + n)..(8 + 2 * n))}

\* C1: a show call that returns has put on the bus, in this order and with
\* nothing in between: resolution-set and 4 data bytes; 0x10, exactly
\* EPD_WIDTH * EPD_HEIGHT / 8 data bytes, 0x11; 0x13, as many data bytes,
\* 0x11; the refresh command 0x12; and last a busy-wait.
C1_ShowFraming ==
    (op = "show" /\ phase = "idle" /\ outcome = "returned") =>
        FrameCycle(BusOf(trace))

\* a show call has returned after sending a frame with ink in it
C1_Witness ==
    /\ op = "show" /\ phase = "idle" /\ outcome = "returned"
    /\ panelInk
    /\ \E i \in 1..Len(trace) : trace[i].k = "spi" /\ trace[i].v = 255

\* C9: every clear cycle that completes (Display.clear, and the one close()
\* starts with) sends the frame cycle with all plane data bytes zero,
\* whatever was shown before, and leaves the panel without ink.
C9_ClearSendsZeros ==
    /\ (op = "clear" /\ phase = "idle" /\ outcome = "returned") =>
          /\ FrameCycle(BusOf(trace))
          /\ PlaneData(BusOf(trace)) = {0}
          /\ ~panelInk
    /\ (op = "close" /\ Len(BusOf(trace)) >= 11 + 2 * PlaneBytes) =>
          LET bus == SubSeq(BusOf(trace), 1, 11 + 2 * PlaneBytes)
          IN FrameCycle(bus) /\ PlaneData(bus) = {0} /\ ~panelInk

\* Display.clear is running on a panel that shows a frame with ink, and has
\* sent some of its data
C9_Witness ==
    /\ op = "clear" /\ phase = "running"
    /\ panelInk
    /\ Len(trace) > 14

\* the calls of a complete close(): the clear cycle, then the sleep sequence
CloseCalls == Len(EPD_Clear) + Len(EPD_sleep)

\* C10: Display.close() never raises.  Whenever it has ended it has returned
\* normally; it was cut short only by an error of the hardware layer, which
\* it logged.
C10_CloseNeverRaises ==
    (op = "close" /\ phase = "idle") =>
        /\ outcome = "returned"
        /\ (Len(trace) < CloseCalls) <=> (logged \in ErrorKinds)
        /\ (Len(trace) = CloseCalls) <=> (logged = "none")

\* close() has returned after the sleep sequence raised OSError
C10_Witness ==
    /\ op = "close" /\ phase = "idle"
    /\ logged = "OSError"
    /\ outcome = "returned"
    /\ Len(trace) > Len(EPD_Clear)

----------------------------------------------------------------------------
(* Properties of the busy wait *)

\* ceil(t / 100)
CeilPolls(t) == (t + 99) \div 100

----------------------------------------------------------------------------
(* Properties of the dither engine *)

\* C2: dither_image returns two masks of the canvas size, and no pixel has
\* ink in both: the black mask and the red mask are disjoint.
C2_MasksDisjoint ==
    (dPhase = "done") =>
        /\ dOut.black.w = WIDTH /\ dOut.black.h = HEIGHT
        /\ dOut.red.w = WIDTH /\ dOut.red.h = HEIGHT
        /\ dOut.black.ink \subseteq Pixels(WIDTH, HEIGHT)
        /\ dOut.red.ink \subseteq Pixels(WIDTH, HEIGHT)
        /\ dOut.black.ink \cap dOut.red.ink = {}

\* a call has returned a black mask and a red mask that both have ink
C2_Witness ==
    /\ dPhase = "done"
    /\ dOut.black.ink # {}
    /\ dOut.red.ink # {}

\* C5: two consecutive calls of dither_image on the same image return the
\* same black mask and the same red mask; nothing a pass leaves behind (the
\* accumulated error, the palette) reaches the next pass.
C5_DitherDeterministic ==
    /\ (dPhase = "done" /\ dPrev.src = dSrc) => dOut = dPrev.out
    /\ palette = [i \in 0..2 |-> _srgb_to_lab(PALETTE_SRGB[i])]

\* the same image has been dithered twice in a row, and the passes left
\* accumulated error behind
C5_Witness ==
    /\ dPhase = "done"
    /\ dPrev.src = dSrc
    /\ dOut.black.ink # {}
    /\ \E q \in Pixels(WIDTH, HEIGHT) : dPix[q] # palette[dRes[q]]

----------------------------------------------------------------------------
(* Properties of the layer composer *)

\* the pixels strictly inside the outline of the bar (x, y, width, height)
BarInterior(b) ==
    {q \in Pixels(WIDTH, HEIGHT) : /\ b[1] < q[1] /\ q[1] < b[1] + b[3]
                                   /\ b[2] < q[2] /\ q[2] < b[2] + b[4]}

\* a bar wide enough, and a value large enough, for a fill of one pixel
HasFill(c) ==
    /\ c.percent > 0
    /\ (c.box[3] - 2) * c.percent >= 1000

\* C7: progress_bar draws its fill on the red plane whenever
\* percent >= critical_threshold, whatever colour was requested, and on
\* the plane of the requested colour whenever percent < critical_threshold:
\* the fill's first pixel is inked on that plane, and the other plane gets
\* no new ink inside the outline.
C7_ProgressBarEscalation ==
    [][(cDraws' = cDraws + 1 /\ cCall'.op = "progress_bar") =>
          LET c == cCall'
              plane == IF c.percent >= c.critical_threshold THEN "red"
                       ELSE c.color
              newBlack == (cBlack'.ink \ cBlack.ink) \cap BarInterior(c.box)
              newRed == (cRed'.ink \ cRed.ink) \cap BarInterior(c.box)
              first == <<c.box[1] + 1, c.box[2] + 1>>
          IN IF plane = "red"
             THEN /\ newBlack = {}
                  /\ HasFill(c) => first \in cRed'.ink
             ELSE /\ newRed = {}
                  /\ HasFill(c) => first \in cBlack'.ink]_vars

\* a bar at its threshold was requested in black on a blank Composer: its
\* fill is on the red plane and its outline on the black plane
C7_Witness ==
    /\ cCall.op = "progress_bar"
    /\ cCall.color = "black"
    /\ cCall.percent = cCall.critical_threshold
    /\ HasFill(cCall)
    /\ cDraws = 1
    /\ <<cCall.box[1] + 1, cCall.box[2] + 1>> \in cRed.ink
    /\ cBlack.ink # {}
    /\ cBlack.ink \cap BarInterior(cCall.box) = {}

SinglePlane ==
    {"text", "text_centered", "text_right", "rect", "line", "hline",
     "ellipse"}

\* C8: a single-plane primitive (text, text_centered, text_right, rect,
\* line, hline, ellipse) called with colour c leaves every pixel of the
\* plane c does not select as it was.
C8_OtherPlaneUntouched ==
    [][(cDraws' = cDraws + 1 /\ cCall'.op \in SinglePlane) =>
          IF cCall'.color = "red" THEN cBlack' = cBlack
          ELSE cRed' = cRed]_vars

\* a red rectangle was drawn on a Composer whose black plane had ink: the
\* red plane has the rectangle's ink, the black plane still has its own
C8_Witness ==
    /\ cCall.op = "rect"
    /\ cCall.color = "red"
    /\ cDraws = 2
    /\ cRed.ink # {}
    /\ cBlack.ink # {}
    /\ cBlack.ink # cRed.ink

----------------------------------------------------------------------------
(* The panel session after close *)

\* C11: the Closed state is terminal: once close has released the bus, a
\* show or clear cycle acquires neither bus nor pins and sends no command
\* or data byte (a cycle that finds the bus released leaves it released
\* and puts nothing on it).
C11_ClosedIsTerminal ==
    [][(phase = "running" /\ op \in {"show", "clear"} /\ ~spiOpen) =>
          (~spiOpen' /\ BusOf(trace') = BusOf(trace))]_vars

----------------------------------------------------------------------------
(* Errors at startup *)

\* C12: every device-not-found condition at startup reaches the caller of
\* Display() as DisplayNotFoundError: when the constructor fails before or
\* during the init sequence, that is the exception it raises, and no other.
C12_StartupErrorKind ==
    (/\ op = "Display"
     /\ phase = "idle"
     /\ outcome \notin {"none", "returned"}
     /\ Len(trace) < Len(EPD_init))
        => outcome = "DisplayNotFoundError"

\* C13: a mask whose dimensions differ from the canvas size fails fast in
\* the packer: no frame buffer is produced for it.
C13_MismatchFailsFast ==
    (/\ pkVia # "none"
     /\ <<pkImg.w, pkImg.h>> \notin {<<WIDTH, HEIGHT>>, <<HEIGHT, WIDTH>>})
        => pkBuf = <<>>

----------------------------------------------------------------------------
(* The dithering pass in detail *)

Uniform(c) == [q \in Pixels(WIDTH, HEIGHT) |-> c]

\* C14: dithering a uniform white image gives a black mask and a red mask
\* without any ink; dithering a uniform image of the black palette colour
\* gives a black mask that is all ink and a red mask without any ink.
C14_UniformEndToEnd ==
    /\ (dPhase = "done" /\ dSrc = Uniform(PALETTE_SRGB[_IDX_WHITE])) =>
          (dOut.black.ink = {} /\ dOut.red.ink = {})
    /\ (dPhase = "done" /\ dSrc = Uniform(PALETTE_SRGB[_IDX_BLACK])) =>
          (dOut.black.ink = Pixels(WIDTH, HEIGHT) /\ dOut.red.ink = {})

\* a uniform white image was dithered and then a uniform black one, which
\* came out all black
C14_Witness ==
    /\ dPhase = "done"
    /\ dPrev.src = Uniform(PALETTE_SRGB[_IDX_WHITE])
    /\ dPrev.out.black.ink = {}
    /\ dSrc = Uniform(PALETTE_SRGB[_IDX_BLACK])
    /\ dOut.black.ink = Pixels(WIDTH, HEIGHT)

\* C15: the pass visits the pixels in serpentine order: rows in increasing
\* y, an even row from x = 0 up to x = WIDTH - 1, an odd row from
\* x = WIDTH - 1 down to x = 0, and every pixel exactly once.
C15_SerpentineOrder ==
    /\ \A i \in 1..Len(dOrder) :
          LET row == (i - 1) \div WIDTH
              col == (i - 1) % WIDTH
          IN dOrder[i] = <<IF row % 2 = 0 THEN col ELSE WIDTH - 1 - col, row>>
    /\ \A i \in 1..Len(dOrder), j \in 1..Len(dOrder) :
          i # j => dOrder[i] # dOrder[j]
    /\ dPhase = "done" =>
          {dOrder[i] : i \in 1..Len(dOrder)} = Pixels(WIDTH, HEIGHT)

\* a pass is over; its second row began at the right edge and ended at the
\* left edge
C15_Witness ==
    /\ dPhase = "done"
    /\ Len(dOrder) = WIDTH * HEIGHT
    /\ dOrder[WIDTH + 1] = <<WIDTH - 1, 1>>
    /\ dOrder[2 * WIDTH] = <<0, 1>>

\* the step just taken visited a pixel
Visits == Len(dOrder') = Len(dOrder) + 1

\* the pixel visited last
LastVisited == dOrder[Len(dOrder)]

\* C16: a pixel whose accumulated value equals a palette entry is quantized
\* to that entry and propagates no error: no accumulated value changes.
C16_ExactMatchNoResidual ==
    [][Visits =>
          LET p == dOrder'[Len(dOrder')]
          IN \A i \in 0..2 :
                dPix[p] = palette[i] => (dRes'[p] = i /\ dPix' = dPix)]_vars

\* the pixel visited last in a running pass had exactly the red palette
\* value and was quantized to red
C16_Witness ==
    /\ dPhase = "running"
    /\ Len(dOrder) > 0
    /\ dPix[LastVisited] = palette[_IDX_RED]
    /\ dRes[LastVisited] = _IDX_RED

\* e * n / 16 for each component of the error e
Share(e, n) == <<(e[1] * n) \div 16, (e[2] * n) \div 16, (e[3] * n) \div 16>>

\* C18: the error of pixel (x, y), scanned in direction d, is added to the
\* in-bounds ones of (x+d, y) with 7/16, (x-d, y+1) with 3/16, (x, y+1) with
\* 5/16 and (x+d, y+1) with 1/16, and to no other pixel: a tap outside the
\* image is dropped, not wrapped and not reflected.
C18_KernelTaps ==
    [][Visits =>
          LET p == dOrder'[Len(dOrder')]
              x == p[1]
              y == p[2]
              d == IF y % 2 = 0 THEN 1 ELSE -1
              e == <<dPix[p][1] - palette[dRes'[p]][1],
                     dPix[p][2] - palette[dRes'[p]][2],
                     dPix[p][3] - palette[dRes'[p]][3]>>
              n(q) == IF q = <<x + d, y>> THEN 7
                      ELSE IF q = <<x - d, y + 1>> THEN 3
                      ELSE IF q = <<x, y + 1>> THEN 5
                      ELSE IF q = <<x + d, y + 1>> THEN 1
                      ELSE 0
          IN /\ DOMAIN dPix' = DOMAIN dPix
             /\ \A q \in DOMAIN dPix :
                   IF n(q) = 0 THEN dPix'[q] = dPix[q]
                   ELSE LET s == Share(e, n(q))
                        IN dPix'[q] = <<dPix[q][1] + s[1], dPix[q][2] + s[2],
                                        dPix[q][3] + s[3]>>]_vars

\* the pixel visited last is the right end of an even row below the top
\* row and left an error: its taps at x + 1 fell outside the image
C18_Witness ==
    /\ dPhase = "running"
    /\ Len(dOrder) > 0
    /\ LastVisited[1] = WIDTH - 1
    /\ LastVisited[2] = 2
    /\ dPix[LastVisited] # palette[dRes[LastVisited]]

\* C19: error goes to pixels not yet visited only: the accumulated value and
\* the palette index of a pixel visited earlier in the pass are not changed
\* by the processing of a later pixel, and the pixel being quantized keeps
\* its accumulated value.
C19_VisitedUntouched ==
    [][Visits =>
          /\ \A i \in 1..Len(dOrder) :
                /\ dPix'[dOrder[i]] = dPix[dOrder[i]]
                /\ dRes'[dOrder[i]] = dRes[dOrder[i]]
          /\ dPix'[dOrder'[Len(dOrder')]] = dPix[dOrder'[Len(dOrder')]]]_vars

\* a pixel of an odd row, with visited pixels to its right and above it,
\* has been quantized and left an error
C19_Witness ==
    /\ dPhase = "running"
    /\ Len(dOrder) > WIDTH + 1
    /\ LastVisited[2] % 2 = 1
    /\ LastVisited[1] < WIDTH - 1
    /\ dPix[LastVisited] # palette[dRes[LastVisited]]

\* the squared Euclidean distance of the value drawn to palette entry i
Dist2(i) ==
    (palette[i][1] - nqOld[1]) * (palette[i][1] - nqOld[1])
    + (palette[i][2] - nqOld[2]) * (palette[i][2] - nqOld[2])
    + (palette[i][3] - nqOld[3]) * (palette[i][3] - nqOld[3])

\* C17: the entry chosen has the smallest squared Euclidean distance to the
\* accumulated value, and among entries at that same distance it is the one
\* with the lowest index (black 0 before red 1 before white 2).
C17_NearestLowestIndex ==
    nqNearest # NotYet =>
        /\ nqNearest \in 0..2
        /\ \A j \in 0..2 : Dist2(nqNearest) <= Dist2(j)
        /\ \A j \in 0..2 : Dist2(j) = Dist2(nqNearest) => nqNearest <= j

\* a value as far from red as from white, and farther from black, has been
\* quantized to red
C17_Witness ==
    /\ nqNearest = _IDX_RED
    /\ Dist2(_IDX_RED) = Dist2(_IDX_WHITE)
    /\ Dist2(_IDX_BLACK) > Dist2(_IDX_RED)

----------------------------------------------------------------------------
(* The init sequence *)

\* the commands of the init sequence in order, each with the number of data
\* bytes that follow it; power-on is followed by a busy-wait instead
InitGroups ==
    <<<<POWER_ON, 0>>, <<PANEL_SETTING, 1>>, <<PLL_CONTROL, 1>>,
      <<POWER_SETTING, 5>>, <<BOOSTER_SOFT_START, 3>>,
      <<POWER_OPTIMIZATION, 2>>, <<POWER_OPTIMIZATION, 2>>,
      <<POWER_OPTIMIZATION, 2>>, <<POWER_OPTIMIZATION, 2>>,
      <<POWER_OPTIMIZATION, 2>>, <<VCM_DC_SETTING_REGISTER, 1>>,
      <<VCOM_AND_DATA_INTERVAL_SETTING, 1>>,
      <<LUT_FOR_VCOM, Len(lut_vcom_dc)>>, <<LUT_WHITE_TO_WHITE, Len(lut_ww)>>,
      <<LUT_BLACK_TO_WHITE, Len(lut_bw)>>, <<LUT_WHITE_TO_BLACK, Len(lut_bb)>>,
      <<LUT_BLACK_TO_BLACK, Len(lut_wb)>>, <<PARTIAL_DISPLAY_REFRESH, 1>>>>

RECURSIVE ShapeFrom(_)
\* what the panel sees of groups g, g + 1, ...: the command, then "data" for
\* each data byte (whatever its value)
ShapeFrom(g) ==
    IF g > Len(InitGroups) THEN <<>>
    ELSE <<Cmd(InitGroups[g][1])>>
         \o (IF g = 1 THEN <<[t |-> "wait", b |-> 0]>> ELSE <<>>)
         \o [i \in 1..InitGroups[g][2] |-> [t |-> "data", b |-> 0]]
         \o ShapeFrom(g + 1)

InitShape == ShapeFrom(1)

\* a bus item without the value of a data byte
ShapeOf(item) == IF item.t = "data" THEN [t |-> "data", b |-> 0] ELSE item

\* the levels written to the reset pin before the first byte is transferred
ResetBefore(tr) ==
    LET RECURSIVE Levels(_)
        Levels(i) ==
            IF i > Len(tr) \/ tr[i].k \in {"spi", "wait"} THEN <<>>
            ELSE (IF tr[i].k = "rst" THEN <<tr[i].v>> ELSE <<>>)
                 \o Levels(i + 1)
    IN Levels(1)

\* C20: the init sequence sends, in this order: the hardware reset; power-on
\* and a busy-wait; panel setting, PLL, power setting and booster; five
\* power-optimization groups; the VCOM bias register; the VCOM/data-interval
\* register; the five LUT uploads; and last partial-refresh-disable.  What
\* has been sent is always a prefix of that sequence, and init has returned
\* only when all of it has been sent.
C20_InitSequence ==
    op = "Display" =>
        LET bus == BusOf(trace)
        IN /\ \A i \in 1..Len(bus) :
                 i <= Len(InitShape) => ShapeOf(bus[i]) = InitShape[i]
           /\ Len(bus) > 0 => ResetBefore(trace) = <<1, 0, 1>>
           /\ outcome = "returned" => Len(bus) >= Len(InitShape)

\* the constructor is running and has just sent the last byte of the init
\* sequence
C20_Witness ==
    /\ op = "Display"
    /\ phase = "running"
    /\ Len(BusOf(trace)) = Len(InitShape)
    /\ ResetBefore(trace) = <<1, 0, 1>>

----------------------------------------------------------------------------
(* The waveform tables *)

LutCommands ==
    {LUT_FOR_VCOM, LUT_WHITE_TO_WHITE, LUT_BLACK_TO_WHITE, LUT_WHITE_TO_BLACK,
     LUT_BLACK_TO_BLACK}

\* the bus items after item i that are not data bytes
LaterNonData(bus, i) == {j \in (i + 1)..Len(bus) : bus[j].t # "data"}

\* the data bytes between item i and the next item that is not a data byte
DataAfter(bus, i) ==
    (CHOOSE j \in LaterNonData(bus, i) :
        \A k \in LaterNonData(bus, i) : j <= k) - i - 1

\* C21 as stated: each of the five LUT commands (0x20 .. 0x24) is followed
\* by exactly 44 data bytes before the next command is issued.
C21_LutTables44 ==
    LET bus == BusOf(trace)
    IN \A i \in 1..Len(bus) :
          (/\ bus[i].t = "cmd"
           /\ bus[i].b \in LutCommands
           /\ LaterNonData(bus, i) # {})
              => DataAfter(bus, i) = 44

\* C21, amended: the VCOM table (0x20) is followed by exactly 44 data bytes
\* and each of the four other tables (0x21 .. 0x24) by exactly 42 data bytes
\* before the next command is issued.
C21_LutTableLengths ==
    LET bus == BusOf(trace)
    IN \A i \in 1..Len(bus) :
          (/\ bus[i].t = "cmd"
           /\ bus[i].b \in LutCommands
           /\ LaterNonData(bus, i) # {})
              => DataAfter(bus, i) = IF bus[i].b = LUT_FOR_VCOM THEN 44
                                     ELSE 42

\* the five tables have been uploaded and the command after the last one
\* has been issued
C21_Witness ==
    LET bus == BusOf(trace)
    IN /\ op = "Display"
       /\ Len(bus) > 0
       /\ bus[Len(bus)] = Cmd(PARTIAL_DISPLAY_REFRESH)
       /\ \A c \in LutCommands : \E i \in 1..Len(bus) : bus[i] = Cmd(c)

----------------------------------------------------------------------------
(* The sleep sequence *)

\* a call of the trace as the sleep sequence names it: a command or data
\* byte, a busy-wait, a delay or the release of bus and pins
StepOf(c) ==
    IF c.k = "spi" THEN <<IF c.dc = 0 THEN "cmd" ELSE "data", c.v>>
    ELSE IF c.k = "wait" THEN <<"wait", 0>>
    ELSE <<c.k, c.v>>

IsStep(c) == c.k \in {"spi", "wait", "delay", "exit"}

\* the calls of the trace from the first VCOM/data-interval command on
SleepPart(tr) ==
    LET starts == {i \in 1..Len(tr) :
                      /\ tr[i].k = "spi" /\ tr[i].dc = 0
                      /\ tr[i].v = VCOM_AND_DATA_INTERVAL_SETTING}
    IN IF starts = {} THEN <<>>
       ELSE LET k == CHOOSE i \in starts : \A j \in starts : i <= j
                part == SelectSeq(SubSeq(tr, k, Len(tr)), IsStep)
            IN [i \in 1..Len(part) |-> StepOf(part[i])]

SleepSteps ==
    <<<<"cmd", 80>>, <<"data", 247>>, <<"cmd", 2>>, <<"wait", 0>>,
      <<"cmd", 7>>, <<"data", 165>>, <<"delay", 2000>>, <<"exit", 0>>>>

\* C22: the sleep sequence sends, in this order: command 0x50 with data 0xF7;
\* command 0x02 and a busy-wait; command 0x07 with its key byte 0xA5; a
\* delay of 2,000 ms; and then releases bus and pins, after which nothing is
\* sent.  What close has done of it is always a prefix of that sequence,
\* and close has come to its end without an error only when all of it is
\* done and the bus is released.
C22_SleepSequence ==
    op = "close" =>
        LET part == SleepPart(trace)
        IN /\ Len(part) <= Len(SleepSteps)
           /\ \A i \in 1..Len(part) : part[i] = SleepSteps[i]
           /\ (outcome = "returned" /\ logged = "none") =>
                 (part = SleepSteps /\ ~spiOpen
                  /\ trace[Len(trace)].k = "exit")

\* close has run the clear cycle and the whole sleep sequence and returned
C22_Witness ==
    /\ op = "close"
    /\ outcome = "returned"
    /\ logged = "none"
    /\ SleepPart(trace) = SleepSteps
    /\ ~spiOpen

----------------------------------------------------------------------------
(* The data/command line *)

\* the command codes the driver sends
CommandCodes ==
    {PANEL_SETTING, POWER_SETTING, POWER_OFF, POWER_ON, BOOSTER_SOFT_START,
     DEEP_SLEEP, DATA_START_TRANSMISSION_1, DATA_STOP, DISPLAY_REFRESH,
     DATA_START_TRANSMISSION_2, PARTIAL_DISPLAY_REFRESH, LUT_FOR_VCOM,
     LUT_WHITE_TO_WHITE, LUT_BLACK_TO_WHITE, LUT_WHITE_TO_BLACK,
     LUT_BLACK_TO_BLACK, PLL_CONTROL, VCOM_AND_DATA_INTERVAL_SETTING,
     TCON_RESOLUTION, VCM_DC_SETTING_REGISTER, POWER_OPTIMIZATION}

\* C23: in every init, display, clear and sleep sequence each byte goes out
\* with the data/command line in the matching state: the line is written
\* immediately before every transfer (never left over from an earlier
\* byte), and a byte sent with the line low is a command code.
C23_LineMatchesByte ==
    \A i \in 1..Len(trace) :
        trace[i].k = "spi" =>
            /\ i > 1
            /\ trace[i - 1].k = "dc"
            /\ trace[i - 1].v = trace[i].dc
            /\ trace[i].dc \in {0, 1}
            /\ trace[i].dc = 0 => trace[i].v \in CommandCodes

\* a show cycle has returned: it sent commands with the line low and, with
\* the line high, plane data whose value is also a command code
C23_Witness ==
    /\ op = "show"
    /\ outcome = "returned"
    /\ \E i \in 1..Len(trace) :
          trace[i].k = "spi" /\ trace[i].dc = 0
    /\ \E i \in 1..Len(trace) :
          /\ trace[i].k = "spi" /\ trace[i].dc = 1
          /\ trace[i].v \in CommandCodes

----------------------------------------------------------------------------
(* Resources after close *)

\* C24: whenever Display.close() returns, the bus and the pins have been
\* released, whether the clear cycle and the sleep sequence completed or
\* one of them failed.
C24_CloseReleasesBus ==
    (op = "close" /\ outcome = "returned") => ~spiOpen

----------------------------------------------------------------------------
(* The two packing paths *)

\* C25: for every mask of the canvas size, rotating it 90 degrees counter-
\* clockwise and packing it through the already-portrait branch (the path
\* of Display.show) gives byte for byte the buffer that the rotating branch
\* gives for the landscape mask itself.
C25_PackingPathsAgree ==
    /\ pkVia = "show" => pkBuf = getbuffer(pkImg)
    /\ pkVia = "getbuffer" => pkBuf = getbuffer(Rotate90(pkImg))

\* a mask with ink at one pixel only has been packed the way Display.show
\* does it, and the buffer has one bit set
C25_Witness ==
    /\ pkVia = "show"
    /\ Cardinality(pkImg.ink) = 1
    /\ \E i \in 1..Len(pkBuf) : pkBuf[i] \in {1, 2, 4, 8, 16, 32, 64, 128}
    /\ \A i \in 1..Len(pkBuf) :
          pkBuf[i] \in {0, 1, 2, 4, 8, 16, 32, 64, 128}

----------------------------------------------------------------------------
(* Properties of the main loop *)

\* a poll iteration has just handled event
Handled(event) == mPc = "event" /\ mPc' # "event" /\ mEvent' = event

\* C26: the screen index is always a valid index, 0 <= screen_idx < total.
\* KEY1 moves it to the previous screen and KEY2 to the next, both with
\* wrap-around; KEY3 and KEY4 leave it unchanged; a refresh timeout moves it
\* to the next screen (with wrap-around) when auto-cycle is on and leaves it
\* unchanged otherwise; an iteration that sees no event, and every step of
\* main() outside the poll iteration, leaves it unchanged too.
C26_ScreenIndexValid ==
    /\ screen_idx \in 0..(total - 1)
    /\ [][/\ screen_idx' \in 0..(total - 1)
          /\ Handled("KEY1") =>
                screen_idx' = IF screen_idx = 0 THEN total - 1
                              ELSE screen_idx - 1
          /\ Handled("KEY2") =>
                screen_idx' = IF screen_idx = total - 1 THEN 0
                              ELSE screen_idx + 1
          /\ Handled("KEY3") \/ Handled("KEY4") => screen_idx' = screen_idx
          /\ Handled("timeout") /\ auto_cycle =>
                screen_idx' = IF screen_idx = total - 1 THEN 0
                              ELSE screen_idx + 1
          /\ Handled("timeout") /\ ~auto_cycle => screen_idx' = screen_idx
          /\ Handled("None") \/ Handled("raised") \/ mPc # "event" =>
                screen_idx' = screen_idx]_vars

\* KEY1 on the first screen has wrapped to the last one, with auto-cycle
\* switched on by an earlier KEY4
C26_Witness ==
    /\ mEvent = "KEY1"
    /\ mFrom = 0
    /\ screen_idx = total - 1
    /\ auto_cycle
    /\ mPc = "loop"

\* C27: once a signal has been delivered main() eventually exits; whenever
\* main() has exited, by a signal or by an exception, display.close() has
\* been called exactly once; close() is called nowhere else, and after it
\* main() stays exited, so that no screen is rendered any more.
C27_SignalStopsAndCloses ==
    /\ (~running) ~> (mPc = "exited")
    /\ [](mPc = "exited" => mCloses = 1)
    /\ [](mPc # "exited" => mCloses = 0)
    /\ [][mCloses >= 1 => mPc' = "exited" /\ mCloses' = mCloses]_vars

\* a signal arrived while a screen was being rendered or the buttons were
\* polled, and main() has left the loop and closed the display
C27_Witness ==
    /\ mPc = "exited"
    /\ ~running
    /\ mExit = "signal"
    /\ mCloses = 1
    /\ mEvent = "None"

\* an exception during rendering ended main(), with no signal delivered
C27_WitnessException ==
    /\ mPc = "exited"
    /\ running
    /\ mExit = "exception"
    /\ mCloses = 1

----------------------------------------------------------------------------
(* Properties of the photo cache *)

\* thread t leaves the locked section of _process_one in this step
Commits(t) == tCall[t].pc = "lock" /\ tCall'[t].pc # "lock"

\* thread t returns False from _process_one in this step
Fails(t) == tCall[t].pc = "except" /\ tCall'[t].pc = "returned"

\* C28: the metadata never lists more than MAX_CACHED photos. The locked
\* section of _process_one appends the new entry and removes entries only
\* when the list would exceed MAX_CACHED; the entries removed are the oldest
\* ones, in insertion order, they are the ones logged as evicted, and none
\* of their files is on disk afterwards.
C28_EvictsOldest ==
    /\ [](Len(meta) <= MAX_CACHED)
    /\ [][\A t \in Threads :
            Commits(t) =>
                LET all == Append(meta, EntryOf(tCall[t].photo))
                    k == Len(all) - Len(meta')
                IN  /\ k >= 0
                    /\ k > 0 => Len(all) > MAX_CACHED
                    /\ meta' = SubSeq(all, k + 1, Len(all))
                    /\ tCall'[t].evicted = SubSeq(all, 1, k)
                    /\ \A i \in 1..k :
                          FilesOf(all[i].hash) \cap files' = {}]_vars

\* a call on a full cache has returned True: the oldest photo was evicted,
\* its files are gone, the new photo is the newest entry and has its files
C28_Witness ==
    \E t \in Threads :
        /\ tCall[t].pc = "returned"
        /\ tCall[t].ok
        /\ Len(tCall[t].evicted) = 1
        /\ FilesOf(tCall[t].evicted[1].hash) \cap files = {}
        /\ Len(meta) = MAX_CACHED
        /\ meta[Len(meta)] = EntryOf(tCall[t].photo)
        /\ FilesOf(meta[Len(meta)].hash) \subseteq files

\* C29: when _process_one returns False for a photo, the metadata has no
\* entry for that photo and none of its three files is on disk.
C29_FailureLeavesNoTrace ==
    [][\A t \in Threads :
          Fails(t) =>
              /\ tCall[t].photo.id \notin _known_ids(meta')
              /\ FilesOf(_hash_url(tCall[t].photo.url)) \cap files' = {}]_vars

\* C30: the metadata never holds two entries with the same photo id.
C30_NoDuplicateIds ==
    \A i, j \in 1..Len(meta) : i # j => meta[i].id # meta[j].id

====
